---- MODULE Spec2Model ----
(***************************************************************************)
(* Book manager: the in-memory BookRepo (adapter), the catalog Service     *)
(* (core) and the enrichment lookup it calls, as a state machine.          *)
(*                                                                         *)
(* Strings on which the code computes (ISBN, title, subtitle, author and   *)
(* tag names) are sequences of one-character strings.  A Go pointer field  *)
(* (to string, to int) is a sequence of length 0 (nil) or 1 (the value).   *)
(* Identifiers are numbers ordered like the strings they stand for; the    *)
(* empty string is EmptyID.  Times are numbers.                            *)
(***************************************************************************)
EXTENDS Integers, Sequences, FiniteSets, TLC

\* ------------------------------------------------------------------ bounds
NumProcs == 2       \* concurrent callers
MaxIDs == 2         \* identifiers that exist (uuid values and caller-chosen ones)
MaxCalls == 3       \* operations one caller starts in a run
IntBits == 8        \* width of the machine integer of page arithmetic
MaxListed == 3      \* records in a repository that is listed
MaxRetry == 2       \* largest retry count an OpenLibraryClient is configured with

\* ------------------------------------------------------- program constants
EmptyID == 0        \* the identifier ""
MinYear == 1450
MaxYear == 3000
MinPageCount == 1
DefaultPageSize == 20

Procs == 1..NumProcs
IDs == 1..MaxIDs
\* The readings of the clock.
Times == {0, 1}
Later(t) == {u \in Times : u >= t}

\* --------------------------------------------------------------- pointers
Nil == <<>>
Some(v) == <<v>>
IsNil(p) == p = <<>>
Deref(p) == p[1]

\* ----------------------------------------------------------------- errors
OK == "nil"
errNotFound == "adapter: not found"
errConflict == "adapter: conflict"
ErrValidation == "core: validation"
ErrConflict == "core: conflict"
ErrNotFound == "core: not_found"
ErrUpstream == "core: upstream"
\* fetchOnce: a status outside 2xx other than 404; a body that does not decode.
errStatus == "openlibrary: status 500"
errDecode == "json: decode"
\* fetchOnce: Client.Do gives the request up because its context is done.
errDoCanceled == "Get url: context canceled"
\* ctx.Err() of the cancelled context.
ctxCanceled == "context canceled"

\* --------------------------------------------------------- model.Book etc.
EnrichmentNotRequested == "not_requested"
EnrichmentOK == "ok"
EnrichmentPartial == "partial"

EnrichmentMeta(attempted, source, status, looked) ==
    [Attempted |-> attempted, Source |-> source, Status |-> status,
     LookedUpISBN |-> looked]

\* The zero value model.Book{} that every failing call returns.
ZeroBook ==
    [ID |-> EmptyID, ISBN |-> Nil, Title |-> <<>>, Subtitle |-> Nil,
     PublishedYear |-> Nil, PageCount |-> Nil, CoverURL |-> Nil,
     Tags |-> <<>>, Authors |-> <<>>,
     Enrichment |-> EnrichmentMeta(FALSE, "", "", <<>>),
     CreatedAt |-> 0, UpdatedAt |-> 0]

ZeroEnriched ==
    [Title |-> Nil, Subtitle |-> Nil, PublishedYear |-> Nil, PageCount |-> Nil,
     CoverURL |-> Nil, Authors |-> <<>>]

ZeroInput ==
    [ISBN |-> Nil, Title |-> Nil, Subtitle |-> Nil, PublishedYear |-> Nil,
     PageCount |-> Nil, CoverURL |-> Nil, Tags |-> <<>>, Authors |-> <<>>,
     Enrich |-> FALSE, RequireEnrichment |-> FALSE]

\* ---------------------------------------------------------------- strings
\* strings.ReplaceAll(s, c, "") for a one-character c.
ReplaceAllEmpty(s, c) == SelectSeq(s, LAMBDA x : x # c)

normalizeISBN_KeepSpaces(s) == ReplaceAllEmpty(s, "-")

normalizeISBN(s) == ReplaceAllEmpty(ReplaceAllEmpty(s, "-"), " ")

copyBook(b) ==
    [b EXCEPT !.Tags = [i \in 1..Len(b.Tags) |-> b.Tags[i]],
              !.Authors = [i \in 1..Len(b.Authors) |-> b.Authors[i]]]

\* ------------------------------------------------------------------- state
VARIABLES
    byID,       \* BookRepo.byID: id -> Book
    byISBN,     \* BookRepo.byISBN: normalized ISBN -> id
    issued,     \* identifiers that exist already: uuid.NewString returns none of them
    now,        \* the clock time.Now reads
    pc,         \* per caller: where it stands in its call
    calls,      \* per caller: operations started
    inp,        \* per caller: the argument of its current (or last) call
    bk,         \* per caller: CreateBook's local b
    enr,        \* per caller: what FetchByISBN returned to the call
    fetches,    \* per caller: the ISBNs its call passed to FetchByISBN, in order
    ret,        \* per caller: what its last call returned
    mu,         \* BookRepo.mu: the writer holding it, the readers holding it
    items,      \* per caller: List's private snapshot of the records
    client,     \* OpenLibraryClient and the frame of its FetchByISBN call
    mem,        \* the backing arrays of []string values, and the ones callers hold
    resp        \* per caller: what the HTTP handler wrote for its request

\* sync.RWMutex: at most one writer (NoProc: none), any number of readers.
NoProc == 0
FreeMu == [writer |-> NoProc, readers |-> {}]

vars == <<byID, byISBN, issued, now, pc, calls, inp, bk, enr, fetches, ret, mu, items, client, mem,
          resp>>
repo == <<byID, byISBN>>

\* A []string is the address of its backing array, NilSlice for the nil
\* slice.  mem.arrays holds the arrays, mem.held the addresses that a caller
\* of the service or of the store has in hand.
NilSlice == 0
NoMem == [arrays |-> <<>>, held |-> {}]

\* ------------------------------------------------------------- BookRepo
AddEntry(f, k, v) == [x \in DOMAIN f \cup {k} |-> IF x = k THEN v ELSE f[x]]
DropEntry(f, k) == [x \in DOMAIN f \ {k} |-> f[x]]

RepoResult(err, book, ids, isbns) ==
    [err |-> err, book |-> book, byID |-> ids, byISBN |-> isbns]

\* Create with the ISBN index check left out.
Create_NoIndexCheck(b) ==
    IF b.ID = EmptyID \/ b.ID \in DOMAIN byID
    THEN RepoResult(errConflict, ZeroBook, byID, byISBN)
    ELSE LET key == IF IsNil(b.ISBN) THEN <<>> ELSE normalizeISBN(Deref(b.ISBN))
         IN RepoResult(OK, copyBook(b), AddEntry(byID, b.ID, copyBook(b)),
                       IF key # <<>> THEN AddEntry(byISBN, key, b.ID) ELSE byISBN)

\* Create that accepts the empty identifier.
Create_EmptyIDAllowed(b) ==
    IF b.ID \in DOMAIN byID
    THEN RepoResult(errConflict, ZeroBook, byID, byISBN)
    ELSE LET key == IF IsNil(b.ISBN) THEN <<>> ELSE normalizeISBN(Deref(b.ISBN))
             indexed == ~IsNil(b.ISBN) /\ key # <<>>
         IN IF indexed /\ key \in DOMAIN byISBN
            THEN RepoResult(errConflict, ZeroBook, byID, byISBN)
            ELSE RepoResult(OK, copyBook(b), AddEntry(byID, b.ID, copyBook(b)),
                            IF indexed THEN AddEntry(byISBN, key, b.ID) ELSE byISBN)

\* Create that overwrites the record an identifier already has.
Create_Overwrites(b) ==
    IF b.ID = EmptyID
    THEN RepoResult(errConflict, ZeroBook, byID, byISBN)
    ELSE RepoResult(OK, copyBook(b), AddEntry(byID, b.ID, copyBook(b)), byISBN)

\* BookRepo.Create, inside its Lock/Unlock: the result and the two maps after it.
Create(b) ==
    IF b.ID = EmptyID
    THEN RepoResult(errConflict, ZeroBook, byID, byISBN)
    ELSE IF b.ID \in DOMAIN byID
    THEN RepoResult(errConflict, ZeroBook, byID, byISBN)
    ELSE LET key == IF IsNil(b.ISBN) THEN <<>> ELSE normalizeISBN(Deref(b.ISBN))
             indexed == ~IsNil(b.ISBN) /\ key # <<>>
         IN IF indexed /\ key \in DOMAIN byISBN
            THEN RepoResult(errConflict, ZeroBook, byID, byISBN)
            ELSE RepoResult(OK, copyBook(b), AddEntry(byID, b.ID, copyBook(b)),
                            IF indexed THEN AddEntry(byISBN, key, b.ID) ELSE byISBN)

\* BookRepo.GetByID, inside its RLock/RUnlock.
GetByID(id) ==
    IF id \notin DOMAIN byID
    THEN RepoResult(errNotFound, ZeroBook, byID, byISBN)
    ELSE RepoResult(OK, copyBook(byID[id]), byID, byISBN)

\* GetByISBN that looks the ISBN up as it was given.
GetByISBN_Raw(isbn) ==
    IF isbn \notin DOMAIN byISBN
    THEN RepoResult(errNotFound, ZeroBook, byID, byISBN)
    ELSE IF byISBN[isbn] \notin DOMAIN byID
    THEN RepoResult(errNotFound, ZeroBook, byID, byISBN)
    ELSE RepoResult(OK, copyBook(byID[byISBN[isbn]]), byID, byISBN)

\* BookRepo.GetByISBN, inside its RLock/RUnlock.
GetByISBN(isbn) ==
    LET key == normalizeISBN(isbn)
    IN IF key \notin DOMAIN byISBN
       THEN RepoResult(errNotFound, ZeroBook, byID, byISBN)
       ELSE IF byISBN[key] \notin DOMAIN byID
       THEN RepoResult(errNotFound, ZeroBook, byID, byISBN)
       ELSE RepoResult(OK, copyBook(byID[byISBN[key]]), byID, byISBN)

\* Delete that removes the ISBN index entry and leaves the record.
Delete_IndexOnly(id) ==
    IF id \notin DOMAIN byID
    THEN RepoResult(errNotFound, ZeroBook, byID, byISBN)
    ELSE LET b == byID[id]
             isbns == IF ~IsNil(b.ISBN)
                      THEN DropEntry(byISBN, normalizeISBN(Deref(b.ISBN)))
                      ELSE byISBN
         IN RepoResult(OK, ZeroBook, byID, isbns)

\* Delete that leaves the ISBN index entry behind.
Delete_KeepIndex(id) ==
    IF id \notin DOMAIN byID
    THEN RepoResult(errNotFound, ZeroBook, byID, byISBN)
    ELSE RepoResult(OK, ZeroBook, DropEntry(byID, id), byISBN)

\* Delete that takes the record's ISBN as it is spelled for the index key.
Delete_RawKey(id) ==
    IF id \notin DOMAIN byID
    THEN RepoResult(errNotFound, ZeroBook, byID, byISBN)
    ELSE LET b == byID[id]
             isbns == IF ~IsNil(b.ISBN)
                      THEN DropEntry(byISBN, Deref(b.ISBN))
                      ELSE byISBN
         IN RepoResult(OK, ZeroBook, DropEntry(byID, id), isbns)

\* BookRepo.Delete, inside its Lock/Unlock.
Delete(id) ==
    IF id \notin DOMAIN byID
    THEN RepoResult(errNotFound, ZeroBook, byID, byISBN)
    ELSE LET b == byID[id]
             isbns == IF ~IsNil(b.ISBN)
                      THEN DropEntry(byISBN, normalizeISBN(Deref(b.ISBN)))
                      ELSE byISBN
         IN RepoResult(OK, ZeroBook, DropEntry(byID, id), isbns)

\* ------------------------------------------------- strings (Go library)
\* The characters the model's strings are made of, in byte order.
Chars == <<" ", "-", "1", "2", "A", "B", "T", "a", "b", "t">>
Rank(c) == CHOOSE i \in 1..Len(Chars) : Chars[i] = c

ToLowerChar(c) ==
    CASE c = "A" -> "a" [] c = "B" -> "b" [] c = "T" -> "t" [] OTHER -> c

\* strings.ToLower
ToLower(s) == [i \in 1..Len(s) |-> ToLowerChar(s[i])]

\* strings.Contains
Contains(s, sub) ==
    \E i \in 0..(Len(s) - Len(sub)) : SubSeq(s, i + 1, i + Len(sub)) = sub

\* s < t on Go strings: the first differing byte decides, a proper prefix is less.
StrLess(s, t) ==
    \E i \in 1..(Len(t)) :
        /\ \A j \in 1..(i - 1) : j <= Len(s) /\ s[j] = t[j]
        /\ (i > Len(s) \/ (i <= Len(s) /\ Rank(s[i]) < Rank(t[i])))

\* ------------------------------------------------------------ List helpers
Query(qq, author, year, tag, sort, page, size) ==
    [Q |-> qq, Author |-> author, Year |-> year, Tag |-> tag, Sort |-> sort,
     Page |-> page, PageSize |-> size]

SortKey(fld, desc) == [Field |-> fld, Desc |-> desc]

\* matchFilters that retains a record as soon as one provided filter matches.
matchFilters_Any(b, q) ==
    LET sub == IF IsNil(b.Subtitle) THEN <<>> ELSE ToLower(Deref(b.Subtitle))
    IN \/ IsNil(q.Q) /\ IsNil(q.Author) /\ IsNil(q.Tag) /\ IsNil(q.Year)
       \/ ~IsNil(q.Q) /\ (Contains(ToLower(b.Title), ToLower(Deref(q.Q)))
                          \/ Contains(sub, ToLower(Deref(q.Q))))
       \/ ~IsNil(q.Author) /\ \E i \in 1..Len(b.Authors) :
              Contains(ToLower(b.Authors[i]), ToLower(Deref(q.Author)))
       \/ ~IsNil(q.Tag) /\ \E i \in 1..Len(b.Tags) : b.Tags[i] = Deref(q.Tag)
       \/ ~IsNil(q.Year) /\ ~IsNil(b.PublishedYear)
              /\ Deref(b.PublishedYear) = Deref(q.Year)

\* matchFilters: FALSE at the first provided filter the record fails.
matchFilters(b, q) ==
    LET qFails ==
            /\ ~IsNil(q.Q)
            /\ LET needle == ToLower(Deref(q.Q))
               IN /\ ~Contains(ToLower(b.Title), needle)
                  /\ LET sub == IF ~IsNil(b.Subtitle)
                                THEN ToLower(Deref(b.Subtitle)) ELSE <<>>
                     IN ~Contains(sub, needle)
        authorFails ==
            /\ ~IsNil(q.Author)
            /\ LET needle == ToLower(Deref(q.Author))
               IN ~\E i \in 1..Len(b.Authors) : Contains(ToLower(b.Authors[i]), needle)
        tagFails ==
            /\ ~IsNil(q.Tag)
            /\ ~\E i \in 1..Len(b.Tags) : b.Tags[i] = Deref(q.Tag)
        yearFails ==
            /\ ~IsNil(q.Year)
            /\ (IsNil(b.PublishedYear) \/ Deref(b.PublishedYear) # Deref(q.Year))
    IN IF qFails THEN FALSE
       ELSE IF authorFails THEN FALSE
       ELSE IF tagFails THEN FALSE
       ELSE IF yearFails THEN FALSE
       ELSE TRUE

\* The sort key step that takes an absent year for greater than any year.
KeyStep_NilLast(k, a, b) ==
    CASE k.Field = "title" ->
            IF a.Title # b.Title
            THEN IF k.Desc
                 THEN (IF StrLess(b.Title, a.Title) THEN "less" ELSE "notless")
                 ELSE (IF StrLess(a.Title, b.Title) THEN "less" ELSE "notless")
            ELSE "next"
      [] k.Field = "published_year" ->
            LET ai == a.PublishedYear
                bi == b.PublishedYear
            IN IF IsNil(ai) /\ IsNil(bi) THEN "next"
               ELSE IF IsNil(ai) THEN (IF k.Desc THEN "less" ELSE "notless")
               ELSE IF IsNil(bi) THEN (IF k.Desc THEN "notless" ELSE "less")
               ELSE IF Deref(ai) # Deref(bi)
               THEN IF k.Desc
                    THEN (IF Deref(ai) > Deref(bi) THEN "less" ELSE "notless")
                    ELSE (IF Deref(ai) < Deref(bi) THEN "less" ELSE "notless")
               ELSE "next"
      [] k.Field = "created_at" ->
            IF a.CreatedAt # b.CreatedAt
            THEN IF k.Desc
                 THEN (IF a.CreatedAt > b.CreatedAt THEN "less" ELSE "notless")
                 ELSE (IF a.CreatedAt < b.CreatedAt THEN "less" ELSE "notless")
            ELSE "next"
      [] k.Field = "updated_at" ->
            IF a.UpdatedAt # b.UpdatedAt
            THEN IF k.Desc
                 THEN (IF a.UpdatedAt > b.UpdatedAt THEN "less" ELSE "notless")
                 ELSE (IF a.UpdatedAt < b.UpdatedAt THEN "less" ELSE "notless")
            ELSE "next"
      [] OTHER -> "next"

\* One sort key of the SliceStable less function on (a, b): "less" and "notless"
\* are its return true / return false, "next" falls through to the next key.
KeyStep(k, a, b) ==
    CASE k.Field = "title" ->
            IF a.Title # b.Title
            THEN IF k.Desc
                 THEN (IF StrLess(b.Title, a.Title) THEN "less" ELSE "notless")
                 ELSE (IF StrLess(a.Title, b.Title) THEN "less" ELSE "notless")
            ELSE "next"
      [] k.Field = "published_year" ->
            LET ai == a.PublishedYear
                bi == b.PublishedYear
            IN IF IsNil(ai) /\ IsNil(bi) THEN "next"
               ELSE IF IsNil(ai) THEN (IF k.Desc THEN "notless" ELSE "less")
               ELSE IF IsNil(bi) THEN (IF k.Desc THEN "less" ELSE "notless")
               ELSE IF Deref(ai) # Deref(bi)
               THEN IF k.Desc
                    THEN (IF Deref(ai) > Deref(bi) THEN "less" ELSE "notless")
                    ELSE (IF Deref(ai) < Deref(bi) THEN "less" ELSE "notless")
               ELSE "next"
      [] k.Field = "created_at" ->
            IF a.CreatedAt # b.CreatedAt
            THEN IF k.Desc
                 THEN (IF a.CreatedAt > b.CreatedAt THEN "less" ELSE "notless")
                 ELSE (IF a.CreatedAt < b.CreatedAt THEN "less" ELSE "notless")
            ELSE "next"
      [] k.Field = "updated_at" ->
            IF a.UpdatedAt # b.UpdatedAt
            THEN IF k.Desc
                 THEN (IF a.UpdatedAt > b.UpdatedAt THEN "less" ELSE "notless")
                 ELSE (IF a.UpdatedAt < b.UpdatedAt THEN "less" ELSE "notless")
            ELSE "next"
      [] OTHER -> "next"

\* The less function with the tie-break on the identifier left out.
RECURSIVE KeyedLess_NoID(_, _, _)
KeyedLess_NoID(keys, a, b) ==
    IF keys = <<>> THEN FALSE
    ELSE LET d == KeyStep(Head(keys), a, b)
         IN IF d = "less" THEN TRUE
            ELSE IF d = "notless" THEN FALSE
            ELSE KeyedLess_NoID(Tail(keys), a, b)

\* The SliceStable less function: the keys left to right, then the identifier.
RECURSIVE KeyedLess(_, _, _)
KeyedLess(keys, a, b) ==
    IF keys = <<>> THEN a.ID < b.ID
    ELSE LET d == KeyStep(Head(keys), a, b)
         IN IF d = "less" THEN TRUE
            ELSE IF d = "notless" THEN FALSE
            ELSE KeyedLess(Tail(keys), a, b)

\* The default less function of sortBooks: created_at descending, nothing else.
DefaultLess(a, b) == a.CreatedAt > b.CreatedAt

\* The less function sortBooks hands to the sort.
SortLess(keys, a, b) ==
    IF Len(keys) = 0 THEN DefaultLess(a, b) ELSE KeyedLess(keys, a, b)

\* sort.Slice / sort.SliceStable on a slice this short: insertion sort, each
\* element moved left past the elements it is less than.
RECURSIVE InsertLeft(_, _, _)
InsertLeft(s, x, keys) ==
    IF s = <<>> THEN <<x>>
    ELSE IF SortLess(keys, x, s[Len(s)])
    THEN Append(InsertLeft(SubSeq(s, 1, Len(s) - 1), x, keys), s[Len(s)])
    ELSE Append(s, x)

RECURSIVE sortBooks(_, _)
sortBooks(bs, keys) ==
    IF bs = <<>> THEN <<>>
    ELSE InsertLeft(sortBooks(SubSeq(bs, 1, Len(bs) - 1), keys), bs[Len(bs)], keys)

\* -------------------------------------------------------------------- List
\* Machine integer arithmetic: the result wrapped to IntBits bits, two's complement.
WrapInt(x) == ((x + 2 ^ (IntBits - 1)) % (2 ^ IntBits)) - 2 ^ (IntBits - 1)

Page(data, page, size, total) ==
    [Data |-> data, Page |-> page, PageSize |-> size, Total |-> total]
ZeroPage == Page(<<>>, 0, 0, 0)

ErrPanic == "panic: slice bounds out of range"

\* The iteration orders of `for _, b := range r.byID`: every order of the records.
Snapshots ==
    LET n == Cardinality(DOMAIN byID)
    IN {[i \in 1..n |-> copyBook(byID[f[i]])] :
            f \in {g \in [1..n -> DOMAIN byID] : \A i, j \in 1..n : i # j => g[i] # g[j]}}

\* BookRepo.List after its snapshot: filter, sort, paginate.
List(snapshot, q) ==
    LET out == SelectSeq(snapshot, LAMBDA b : matchFilters(b, q))
        sorted == sortBooks(out, q.Sort)
        page == IF q.Page < 1 THEN 1 ELSE q.Page
        size == IF q.PageSize < 1 THEN DefaultPageSize ELSE q.PageSize
        total == Len(sorted)
        start0 == WrapInt((page - 1) * size)
        start == IF start0 > total THEN total ELSE start0
        end0 == WrapInt(start + size)
        end == IF end0 > total THEN total ELSE end0
    IN IF end - start < 0 \/ start < 0
       THEN [err |-> ErrPanic, page |-> ZeroPage]
       ELSE [err |-> OK, page |-> Page(SubSeq(sorted, start + 1, end), page, size, total)]

\* ----------------------------------------------------------------- Service
valueOr(ptr, def) == IF IsNil(ptr) THEN def ELSE Deref(ptr)

\* Validation whose year range leaves out its two ends.
Validate_OpenYearRange(in) ==
    IF (~in.Enrich \/ IsNil(in.ISBN)) /\ (IsNil(in.Title) \/ Deref(in.Title) = <<>>)
    THEN ErrValidation
    ELSE IF ~IsNil(in.PageCount) /\ Deref(in.PageCount) < MinPageCount
    THEN ErrValidation
    ELSE IF ~IsNil(in.PublishedYear)
            /\ (Deref(in.PublishedYear) <= MinYear \/ Deref(in.PublishedYear) >= MaxYear)
    THEN ErrValidation
    ELSE OK

\* CreateBook's basic validation.
Validate(in) ==
    IF (~in.Enrich \/ IsNil(in.ISBN)) /\ (IsNil(in.Title) \/ Deref(in.Title) = <<>>)
    THEN ErrValidation
    ELSE IF ~IsNil(in.PageCount) /\ Deref(in.PageCount) < MinPageCount
    THEN ErrValidation
    ELSE IF ~IsNil(in.PublishedYear)
            /\ (Deref(in.PublishedYear) < MinYear \/ Deref(in.PublishedYear) > MaxYear)
    THEN ErrValidation
    ELSE OK

\* The enrichment condition without the test for an empty ISBN.
WantsEnrichment_AnyISBN(in) == in.Enrich /\ ~IsNil(in.ISBN)

\* The condition of CreateBook's optional enrichment.
WantsEnrichment(in) == in.Enrich /\ ~IsNil(in.ISBN) /\ Deref(in.ISBN) # <<>>

\* NewBook that records the normalized ISBN as the one looked up.
NewBook_LooksUpKey(in, id, t1, t2) ==
    [ID |-> id, ISBN |-> in.ISBN, Title |-> valueOr(in.Title, <<>>),
     Subtitle |-> in.Subtitle, PublishedYear |-> in.PublishedYear,
     PageCount |-> in.PageCount, CoverURL |-> in.CoverURL,
     Tags |-> in.Tags, Authors |-> in.Authors,
     Enrichment |-> IF WantsEnrichment(in)
                    THEN EnrichmentMeta(TRUE, "openlibrary", EnrichmentNotRequested,
                                        normalizeISBN(Deref(in.ISBN)))
                    ELSE EnrichmentMeta(FALSE, "", EnrichmentNotRequested, <<>>),
     CreatedAt |-> t1, UpdatedAt |-> t2]

\* The model.Book CreateBook builds, with the enrichment metadata set before the lookup.
NewBook(in, id, t1, t2) ==
    [ID |-> id, ISBN |-> in.ISBN, Title |-> valueOr(in.Title, <<>>),
     Subtitle |-> in.Subtitle, PublishedYear |-> in.PublishedYear,
     PageCount |-> in.PageCount, CoverURL |-> in.CoverURL,
     Tags |-> in.Tags, Authors |-> in.Authors,
     Enrichment |-> IF WantsEnrichment(in)
                    THEN EnrichmentMeta(TRUE, "openlibrary", EnrichmentNotRequested,
                                        Deref(in.ISBN))
                    ELSE EnrichmentMeta(FALSE, "", EnrichmentNotRequested, <<>>),
     CreatedAt |-> t1, UpdatedAt |-> t2]

\* merge that lets the enrichment result win.
merge_EnrichmentWins(dst, e) ==
    [dst EXCEPT
        !.Title = IF ~IsNil(e.Title) THEN Deref(e.Title) ELSE @,
        !.Subtitle = IF ~IsNil(e.Subtitle) THEN e.Subtitle ELSE @,
        !.PublishedYear = IF ~IsNil(e.PublishedYear) THEN e.PublishedYear ELSE @,
        !.PageCount = IF ~IsNil(e.PageCount) THEN e.PageCount ELSE @,
        !.CoverURL = IF ~IsNil(e.CoverURL) THEN e.CoverURL ELSE @,
        !.Authors = IF Len(e.Authors) > 0 THEN e.Authors ELSE @]

\* merge: fill only missing fields; user wins.
merge(dst, e) ==
    [dst EXCEPT
        !.Title = IF @ = <<>> /\ ~IsNil(e.Title) THEN Deref(e.Title) ELSE @,
        !.Subtitle = IF IsNil(@) /\ ~IsNil(e.Subtitle) THEN e.Subtitle ELSE @,
        !.PublishedYear = IF IsNil(@) /\ ~IsNil(e.PublishedYear) THEN e.PublishedYear ELSE @,
        !.PageCount = IF IsNil(@) /\ ~IsNil(e.PageCount) THEN e.PageCount ELSE @,
        !.CoverURL = IF IsNil(@) /\ ~IsNil(e.CoverURL) THEN e.CoverURL ELSE @,
        !.Authors = IF Len(@) = 0 /\ Len(e.Authors) > 0 THEN e.Authors ELSE @]

\* A tolerated failure of the lookup leaves the enrichment status as it was.
Enriched_Unmarked(b, in, o) ==
    IF o.err
    THEN IF in.RequireEnrichment
         THEN [err |-> ErrUpstream, b |-> b]
         ELSE [err |-> OK, b |-> b]
    ELSE [err |-> OK, b |-> [merge(b, o.res) EXCEPT !.Enrichment.Status = EnrichmentOK]]

\* A failed lookup degrades the record to partial even when enrichment is required.
Enriched_SoftFail(b, in, o) ==
    IF o.err
    THEN [err |-> OK, b |-> [b EXCEPT !.Enrichment.Status = EnrichmentPartial]]
    ELSE [err |-> OK, b |-> [merge(b, o.res) EXCEPT !.Enrichment.Status = EnrichmentOK]]

\* CreateBook on the answer o of the lookup: the error it returns, or the record
\* it goes on with.
Enriched(b, in, o) ==
    IF o.err
    THEN IF in.RequireEnrichment
         THEN [err |-> ErrUpstream, b |-> b]
         ELSE [err |-> OK, b |-> [b EXCEPT !.Enrichment.Status = EnrichmentPartial]]
    ELSE [err |-> OK, b |-> [merge(b, o.res) EXCEPT !.Enrichment.Status = EnrichmentOK]]

\* What a call returned.
Ret(op, err, arg, book, page) ==
    [op |-> op, err |-> err, arg |-> arg, book |-> book, page |-> page]
NoRet == Ret("", OK, <<>>, ZeroBook, ZeroPage)

\* What writeJSON and writeErr put on the wire: the status and the error code.
Response(status, code) == [status |-> status, code |-> code]
NoResp == Response(0, "")

Outcome(failed, res) == [err |-> failed, res |-> res]
NoFetch == Outcome(FALSE, ZeroEnriched)

\* ----------------------------------------------------------------- actions
\* A caller starts an operation.
Start(p) ==
    /\ pc[p] = "idle"
    /\ calls[p] < MaxCalls
    /\ calls' = [calls EXCEPT ![p] = @ + 1]

Return(p, r) ==
    /\ pc' = [pc EXCEPT ![p] = "idle"]
    /\ ret' = [ret EXCEPT ![p] = r]
    /\ bk' = [bk EXCEPT ![p] = ZeroBook]

\* CreateBook that looks for the ISBN in the store before the enrichment lookup.
CreateBookCall_ChecksISBNFirst(p, in) ==
    /\ Start(p)
    /\ inp' = [inp EXCEPT ![p] = in]
    /\ enr' = [enr EXCEPT ![p] = NoFetch]
    /\ fetches' = [fetches EXCEPT ![p] = <<>>]
    /\ UNCHANGED <<byID, byISBN, mu, items, client, mem, resp>>
    /\ IF Validate(in) # OK
       THEN /\ Return(p, Ret("CreateBook", ErrValidation, <<>>, ZeroBook, ZeroPage))
            /\ UNCHANGED <<issued, now>>
       ELSE IF ~IsNil(in.ISBN) /\ Deref(in.ISBN) # <<>> /\ GetByISBN(Deref(in.ISBN)).err = OK
       THEN /\ Return(p, Ret("CreateBook", ErrConflict, <<>>, ZeroBook, ZeroPage))
            /\ UNCHANGED <<issued, now>>
       ELSE \E id \in IDs \ issued : \E t1 \in Later(now) : \E t2 \in Later(t1) :
            /\ issued' = issued \cup {id}
            /\ now' = t2
            /\ bk' = [bk EXCEPT ![p] = NewBook(in, id, t1, t2)]
            /\ pc' = [pc EXCEPT ![p] = IF WantsEnrichment(in) THEN "fetch" ELSE "precheck"]
            /\ UNCHANGED ret

\* Service.CreateBook up to the enrichment lookup: validation, then the record
\* with a fresh identifier and two readings of the clock.
CreateBookCall(p, in) ==
    /\ Start(p)
    /\ inp' = [inp EXCEPT ![p] = in]
    /\ enr' = [enr EXCEPT ![p] = NoFetch]
    /\ fetches' = [fetches EXCEPT ![p] = <<>>]
    /\ UNCHANGED <<byID, byISBN, mu, items, client, mem, resp>>
    /\ IF Validate(in) # OK
       THEN /\ Return(p, Ret("CreateBook", ErrValidation, <<>>, ZeroBook, ZeroPage))
            /\ UNCHANGED <<issued, now>>
       ELSE \E id \in IDs \ issued : \E t1 \in Later(now) : \E t2 \in Later(t1) :
            /\ issued' = issued \cup {id}
            /\ now' = t2
            /\ bk' = [bk EXCEPT ![p] = NewBook(in, id, t1, t2)]
            /\ pc' = [pc EXCEPT ![p] = IF WantsEnrichment(in) THEN "fetch" ELSE "precheck"]
            /\ UNCHANGED ret

\* Service.CreateBook, the lookup returns: o is what Enrich.FetchByISBN answered.
Fetch(p, o) ==
    /\ pc[p] = "fetch"
    /\ enr' = [enr EXCEPT ![p] = o]
    /\ fetches' = [fetches EXCEPT ![p] = Append(@, Deref(inp[p].ISBN))]
    /\ UNCHANGED <<byID, byISBN, issued, now, calls, inp, mu, items, client, mem, resp>>
    /\ LET r == Enriched(bk[p], inp[p], o)
       IN IF r.err # OK
          THEN Return(p, Ret("CreateBook", r.err, <<>>, ZeroBook, ZeroPage))
          ELSE /\ bk' = [bk EXCEPT ![p] = r.b]
               /\ pc' = [pc EXCEPT ![p] = "precheck"]
               /\ UNCHANGED ret

\* CreateBook without the duplicate ISBN protection: straight on to Repo.Create.
PreCheck_Skipped(p) ==
    /\ pc[p] = "precheck"
    /\ pc' = [pc EXCEPT ![p] = "insert"]
    /\ UNCHANGED <<byID, byISBN, issued, now, calls, inp, enr, fetches, mu, items, client, mem, ret, bk, resp>>

\* Service.CreateBook, the duplicate ISBN protection: Repo.GetByISBN before create.
PreCheck(p) ==
    /\ pc[p] = "precheck"
    /\ UNCHANGED <<byID, byISBN, issued, now, calls, inp, enr, fetches, mu, items, client, mem, resp>>
    /\ IF /\ ~IsNil(bk[p].ISBN)
          /\ Deref(bk[p].ISBN) # <<>>
          /\ GetByISBN(Deref(bk[p].ISBN)).err = OK
       THEN Return(p, Ret("CreateBook", ErrConflict, <<>>, ZeroBook, ZeroPage))
       ELSE /\ pc' = [pc EXCEPT ![p] = "insert"]
            /\ UNCHANGED <<ret, bk>>

\* Service.CreateBook, Repo.Create and the return of its result.
Insert(p) ==
    /\ pc[p] = "insert"
    /\ LET r == Create(bk[p])
       IN /\ byID' = r.byID
          /\ byISBN' = r.byISBN
          /\ Return(p, Ret("CreateBook", r.err, <<>>, r.book, ZeroPage))
    /\ UNCHANGED <<issued, now, calls, inp, enr, fetches, mu, items, client, mem, resp>>

\* GetBook that hands the store's error on as it is.
GetBook_Leaky(p, id) ==
    /\ Start(p)
    /\ LET r == GetByID(id)
       IN Return(p, Ret("GetBook", r.err, id, r.book, ZeroPage))
    /\ UNCHANGED <<byID, byISBN, issued, now, inp, enr, fetches, mu, items, client, mem, resp>>

\* Service.GetBook
GetBook(p, id) ==
    /\ Start(p)
    /\ LET r == GetByID(id)
       IN Return(p, Ret("GetBook", IF r.err # OK THEN ErrNotFound ELSE OK, id,
                        IF r.err # OK THEN ZeroBook ELSE r.book, ZeroPage))
    /\ UNCHANGED <<byID, byISBN, issued, now, inp, enr, fetches, mu, items, client, mem, resp>>

\* Service.DeleteBook
DeleteBook(p, id) ==
    /\ Start(p)
    /\ LET r == Delete(id)
       IN /\ byID' = r.byID
          /\ byISBN' = r.byISBN
          /\ Return(p, Ret("DeleteBook", IF r.err # OK THEN ErrNotFound ELSE OK, id,
                           ZeroBook, ZeroPage))
    /\ UNCHANGED <<issued, now, inp, enr, fetches, mu, items, client, mem, resp>>

\* A caller of the repository itself: BookRepo.Create with a record of its own,
\* whose identifier then exists.
StoreCreate(p, b) ==
    /\ Start(p)
    /\ LET r == Create(b)
       IN /\ byID' = r.byID
          /\ byISBN' = r.byISBN
          /\ Return(p, Ret("Repo.Create", r.err, b, r.book, ZeroPage))
    /\ issued' = issued \cup ({b.ID} \cap IDs)
    /\ UNCHANGED <<now, inp, enr, fetches, mu, items, client, mem, resp>>

\* BookRepo.GetByISBN called on the repository itself.
StoreGetByISBN(p, isbn) ==
    /\ Start(p)
    /\ LET r == GetByISBN(isbn)
       IN Return(p, Ret("Repo.GetByISBN", r.err, isbn, r.book, ZeroPage))
    /\ UNCHANGED <<byID, byISBN, issued, now, inp, enr, fetches, mu, items, client, mem, resp>>

\* Service.ListBooks: BookRepo.List on one iteration order of the map.
ListBooks(p, q) ==
    /\ Start(p)
    /\ \E snapshot \in Snapshots :
           LET r == List(snapshot, q)
           IN Return(p, Ret("ListBooks", r.err, q, ZeroBook, r.page))
    /\ UNCHANGED <<byID, byISBN, issued, now, inp, enr, fetches, mu, items, client, mem, resp>>

\* ------------------------------------------------- OpenLibraryClient
\* The backoff step of FetchByISBN, in milliseconds.
BackoffStep == 150

\* Before NewOpenLibraryClient.  Of the frame of FetchByISBN: attempts, i and
\* lastErr are its locals, made counts the fetchOnce calls, errs lists what
\* they returned, waits lists the backoff waits that ran to their end,
\* ctxDone is the calling context's state, err and found are what the call
\* returned.
NoClient ==
    [at |-> "new", Retry |-> 0, attempts |-> 0, i |-> 0, lastErr |-> OK,
     made |-> 0, errs |-> <<>>, waits |-> <<>>, ctxDone |-> FALSE, err |-> OK, found |-> FALSE]

\* The for statement of FetchByISBN at its condition: once more round the
\* loop, or past it to return lastErr.
Loop(c) ==
    IF c.i < c.attempts
    THEN [c EXCEPT !.at = "loop"]
    ELSE [c EXCEPT !.at = "returned", !.err = c.lastErr]

\* The loop body that retries a not found like any other failure.
Handle_RetriesNotFound(c, err) ==
    IF err = OK
    THEN [c EXCEPT !.at = "returned", !.err = OK, !.found = TRUE]
    ELSE IF c.i < c.attempts - 1
    THEN [c EXCEPT !.lastErr = err, !.at = "backoff"]
    ELSE Loop([c EXCEPT !.lastErr = err, !.i = @ + 1])

\* The loop body that waits after the last attempt too.
Handle_WaitsAfterLast(c, err) ==
    IF err = OK
    THEN [c EXCEPT !.at = "returned", !.err = OK, !.found = TRUE]
    ELSE IF err = errNotFound
    THEN [c EXCEPT !.at = "returned", !.err = err]
    ELSE [c EXCEPT !.lastErr = err, !.at = "backoff"]

\* The loop body of FetchByISBN after fetchOnce returned err: return the
\* result, return the not found, or keep the error and wait unless this was
\* the last attempt.
Handle(c, err) ==
    IF err = OK
    THEN [c EXCEPT !.at = "returned", !.err = OK, !.found = TRUE]
    ELSE IF err = errNotFound
    THEN [c EXCEPT !.at = "returned", !.err = err]
    ELSE IF c.i < c.attempts - 1
    THEN [c EXCEPT !.lastErr = err, !.at = "backoff"]
    ELSE Loop([c EXCEPT !.lastErr = err, !.i = @ + 1])

\* What fetchOnce can return once its request is under way.
Answers(c) ==
    {OK, errNotFound, errStatus, errDecode} \cup (IF c.ctxDone THEN {errDoCanceled} ELSE {})

\* NewOpenLibraryClient(baseURL, retry, httpClient)
NewOpenLibraryClient(retry) ==
    /\ client.at = "new"
    /\ client' = [client EXCEPT !.at = "ready", !.Retry = IF retry < 0 THEN 0 ELSE retry]
    /\ UNCHANGED <<byID, byISBN, issued, now, pc, calls, inp, bk, enr, fetches, ret, mu, items, mem, resp>>

\* FetchByISBN is called: attempts := c.Retry + 1, i := 0.
FetchByISBN ==
    /\ client.at = "ready"
    /\ client' = Loop([client EXCEPT !.attempts = client.Retry + 1, !.i = 0])
    /\ UNCHANGED <<byID, byISBN, issued, now, pc, calls, inp, bk, enr, fetches, ret, mu, items, mem, resp>>

\* The calling context is cancelled, at any moment before the call returns.
Cancel ==
    /\ client.at \in {"ready", "loop", "inflight", "backoff"}
    /\ ~client.ctxDone
    /\ client' = [client EXCEPT !.ctxDone = TRUE]
    /\ UNCHANGED <<byID, byISBN, issued, now, pc, calls, inp, bk, enr, fetches, ret, mu, items, mem, resp>>

\* fetchOnce is called and hands its request to Client.Do, which refuses a
\* request whose context is done already.
Do ==
    /\ client.at = "loop"
    /\ client' = IF client.ctxDone
                 THEN Handle([client EXCEPT !.made = @ + 1,
                                            !.errs = Append(@, errDoCanceled)],
                             errDoCanceled)
                 ELSE [client EXCEPT !.made = @ + 1, !.at = "inflight"]
    /\ UNCHANGED <<byID, byISBN, issued, now, pc, calls, inp, bk, enr, fetches, ret, mu, items, mem, resp>>

\* fetchOnce returns err, and the loop body acts on it.
fetchOnce(err) ==
    /\ client.at = "inflight"
    /\ err \in Answers(client)
    /\ client' = Handle([client EXCEPT !.errs = Append(@, err)], err)
    /\ UNCHANGED <<byID, byISBN, issued, now, pc, calls, inp, bk, enr, fetches, ret, mu, items, mem, resp>>

\* The select of the backoff: time.After delivers, the next round begins.
TimeAfter ==
    /\ client.at = "backoff"
    /\ ~client.ctxDone
    /\ client' = Loop([client EXCEPT !.waits = Append(@, BackoffStep * (client.i + 1)),
                                     !.i = @ + 1])
    /\ UNCHANGED <<byID, byISBN, issued, now, pc, calls, inp, bk, enr, fetches, ret, mu, items, mem, resp>>

\* The select of the backoff that returns the kept error when the context is done.
CtxDone_ReturnsLastErr ==
    /\ client.at = "backoff"
    /\ client.ctxDone
    /\ client' = [client EXCEPT !.at = "returned", !.err = client.lastErr]
    /\ UNCHANGED <<byID, byISBN, issued, now, pc, calls, inp, bk, enr, fetches, ret, mu, items, mem, resp>>

\* The select of the backoff: ctx.Done() delivers, FetchByISBN returns ctx.Err().
CtxDone ==
    /\ client.at = "backoff"
    /\ client.ctxDone
    /\ client' = [client EXCEPT !.at = "returned", !.err = ctxCanceled]
    /\ UNCHANGED <<byID, byISBN, issued, now, pc, calls, inp, bk, enr, fetches, ret, mu, items, mem, resp>>

\* ------------------------------------------------- slices and their arrays
\* The elements of the slice at address a.
Elems(m, a) == IF a = NilSlice THEN <<>> ELSE m.arrays[a]

\* A slice with the given elements in an array of its own; the nil slice
\* when there are none.
Alloc(m, elems) ==
    IF elems = <<>>
    THEN [mem |-> m, addr |-> NilSlice]
    ELSE [mem |-> [m EXCEPT !.arrays = Append(@, elems)], addr |-> Len(m.arrays) + 1]

\* model.Book{}: both slices nil.
NoBook == [ZeroBook EXCEPT !.Tags = NilSlice, !.Authors = NilSlice]

\* A copy that is the slice itself.
Clone_Shares(m, a) == [mem |-> m, addr |-> a]

\* append([]string(nil), s...)
Clone(m, a) == Alloc(m, Elems(m, a))

\* copyBook, with the arrays it allocates.
copyBookMem(m, b) ==
    LET t == Clone(m, b.Tags)
        a == Clone(t.mem, b.Authors)
    IN [mem |-> a.mem, book |-> [b EXCEPT !.Tags = t.addr, !.Authors = a.addr]]

\* The caller has the slices of b in hand.
Hold(m, b) == [m EXCEPT !.held = @ \cup ({b.Tags, b.Authors} \ {NilSlice})]

\* The record without its slices, for the operators that do not look at them.
Bare(b) == [b EXCEPT !.Tags = <<>>, !.Authors = <<>>]

\* BookRepo.Create of a record whose Tags and Authors are slices in memory:
\* the checks of Create, the copy that is stored, the copy that is returned.
CreateMem(m, b) ==
    LET r == Create(Bare(b))
        stored == copyBookMem(m, b)
        returned == copyBookMem(stored.mem, b)
    IN IF r.err # OK
       THEN [err |-> r.err, book |-> NoBook, byID |-> byID, byISBN |-> byISBN, mem |-> m]
       ELSE [err |-> OK, book |-> returned.book,
             byID |-> AddEntry(byID, b.ID, stored.book), byISBN |-> r.byISBN,
             mem |-> returned.mem]

\* A caller makes a record with slices of its own and hands it to
\* BookRepo.Create; it keeps its slices and those of the record returned.
MemStoreCreate(p, id, isbn, tags, authors) ==
    /\ Start(p)
    /\ LET t == Alloc(mem, tags)
           a == Alloc(t.mem, authors)
           b == [ZeroBook EXCEPT !.ID = id, !.ISBN = isbn, !.Title = <<"T">>,
                                 !.Tags = t.addr, !.Authors = a.addr]
           r == CreateMem(Hold(a.mem, b), b)
       IN /\ byID' = r.byID
          /\ byISBN' = r.byISBN
          /\ mem' = Hold(r.mem, r.book)
          /\ Return(p, Ret("Repo.Create", r.err, id, r.book, ZeroPage))
    /\ issued' = issued \cup {id}
    /\ UNCHANGED <<now, inp, enr, fetches, mu, items, client, resp>>

\* Service.CreateBook with Tags and Authors of the caller, no ISBN and no
\* enrichment: the service copies the slices into b, Repo.Create stores a copy
\* and returns a copy, which the caller keeps beside its own.
MemCreateBook(p, tags, authors) ==
    /\ Start(p)
    /\ \E id \in IDs \ issued :
        LET t == Alloc(mem, tags)
            a == Alloc(t.mem, authors)
            in == [ZeroBook EXCEPT !.Tags = t.addr, !.Authors = a.addr]
            bt == Clone(Hold(a.mem, in), in.Tags)
            ba == Clone(bt.mem, in.Authors)
            b == [ZeroBook EXCEPT !.ID = id, !.Title = <<"A">>,
                                  !.Tags = bt.addr, !.Authors = ba.addr,
                                  !.Enrichment = EnrichmentMeta(FALSE, "", EnrichmentNotRequested, <<>>)]
            r == CreateMem(ba.mem, b)
        IN /\ byID' = r.byID
           /\ byISBN' = r.byISBN
           /\ mem' = Hold(r.mem, r.book)
           /\ issued' = issued \cup {id}
           /\ Return(p, Ret("CreateBook", r.err, id, r.book, ZeroPage))
    /\ UNCHANGED <<now, inp, enr, fetches, mu, items, client, resp>>

\* BookRepo.GetByID: the caller keeps the slices of the copy it is given.
MemGetByID(p, id) ==
    /\ Start(p)
    /\ IF id \notin DOMAIN byID
       THEN /\ Return(p, Ret("Repo.GetByID", errNotFound, id, NoBook, ZeroPage))
            /\ UNCHANGED mem
       ELSE LET r == copyBookMem(mem, byID[id])
            IN /\ mem' = Hold(r.mem, r.book)
               /\ Return(p, Ret("Repo.GetByID", OK, id, r.book, ZeroPage))
    /\ UNCHANGED <<byID, byISBN, issued, now, inp, enr, fetches, mu, items, client, resp>>

\* BookRepo.GetByISBN, likewise.
MemGetByISBN(p, isbn) ==
    /\ Start(p)
    /\ LET key == normalizeISBN(isbn)
       IN IF key \notin DOMAIN byISBN \/ byISBN[key] \notin DOMAIN byID
          THEN /\ Return(p, Ret("Repo.GetByISBN", errNotFound, isbn, NoBook, ZeroPage))
               /\ UNCHANGED mem
          ELSE LET r == copyBookMem(mem, byID[byISBN[key]])
               IN /\ mem' = Hold(r.mem, r.book)
                  /\ Return(p, Ret("Repo.GetByISBN", OK, isbn, r.book, ZeroPage))
    /\ UNCHANGED <<byID, byISBN, issued, now, inp, enr, fetches, mu, items, client, resp>>

\* The copies BookRepo.List takes of the records with the identifiers ids,
\* smallest first.
RECURSIVE CopyAll(_, _)
CopyAll(m, ids) ==
    IF ids = {}
    THEN [mem |-> m, books |-> <<>>]
    ELSE LET id == CHOOSE x \in ids : \A y \in ids : x <= y
             c == copyBookMem(m, byID[id])
             rest == CopyAll(c.mem, ids \ {id})
         IN [mem |-> rest.mem, books |-> <<c.book>> \o rest.books]

\* BookRepo.List without filters, of a store whose records fit one page:
\* the caller keeps the slices of every record of the page.
MemList(p) ==
    /\ Start(p)
    /\ LET r == CopyAll(mem, DOMAIN byID)
           kept == {r.books[i].Tags : i \in DOMAIN r.books}
                       \cup {r.books[i].Authors : i \in DOMAIN r.books}
       IN /\ mem' = [r.mem EXCEPT !.held = @ \cup (kept \ {NilSlice})]
          /\ Return(p, Ret("Repo.List", OK, EmptyID, NoBook,
                           Page(r.books, 1, DefaultPageSize, Len(r.books))))
    /\ UNCHANGED <<byID, byISBN, issued, now, inp, enr, fetches, mu, items, client, resp>>

\* A caller assigns v to element k of a slice it has in hand.
Scribble(p, k, v) ==
    /\ Start(p)
    /\ \E a \in mem.held :
           /\ k \in DOMAIN mem.arrays[a]
           /\ mem.arrays[a][k] # v
           /\ mem' = [mem EXCEPT !.arrays[a][k] = v]
    /\ UNCHANGED <<byID, byISBN, issued, now, pc, inp, bk, enr, fetches, ret, mu, items, client, resp>>

\* ------------------------------------------------------------------ inputs
OptionOf(S) == {Nil} \cup {Some(v) : v \in S}

\* ISBN strings: three spellings of one key and two that normalize to nothing.
ISBNStrings == {<<"1">>, <<"1", "-">>, <<" ", "1">>, <<"-">>, <<" ">>}

Input(isbn, title, enrich, require) ==
    [ZeroInput EXCEPT !.ISBN = isbn, !.Title = title, !.Enrich = enrich,
                      !.RequireEnrichment = require]

\* CreateBook arguments of the sequential system: every ISBN without enrichment,
\* one ISBN with optional and with required enrichment, and an invalid one.
SmallInputs ==
    {Input(i, Some(<<"A">>), FALSE, FALSE) : i \in OptionOf({<<"1">>, <<"-">>, <<" ">>})}
    \cup {Input(Some(<<"1", "-">>), Nil, TRUE, r) : r \in BOOLEAN}
    \cup {Input(Some(<<"1">>), Nil, FALSE, FALSE)}

SmallOutcomes ==
    {Outcome(TRUE, ZeroEnriched),
     Outcome(FALSE, [ZeroEnriched EXCEPT !.Title = Some(<<"B">>)])}

\* Records handed to BookRepo.Create directly: any identifier, the empty one too.
StoreBooks ==
    {[ZeroBook EXCEPT !.ID = id, !.ISBN = i, !.Title = <<"T">>] :
        id \in {EmptyID} \cup IDs, i \in OptionOf({<<" ", "1">>, <<"-">>})}

\* ----------------------------------------------------- the sequential system
\* One caller at a time (SeqProcs), any operation, MaxCalls operations.
SeqProcs == {p \in Procs : p <= 1}

Init ==
    /\ byID = <<>>
    /\ byISBN = <<>>
    /\ issued = {}
    /\ now = 0
    /\ pc = [p \in Procs |-> "idle"]
    /\ calls = [p \in Procs |-> 0]
    /\ inp = [p \in Procs |-> ZeroInput]
    /\ bk = [p \in Procs |-> ZeroBook]
    /\ enr = [p \in Procs |-> NoFetch]
    /\ fetches = [p \in Procs |-> <<>>]
    /\ ret = [p \in Procs |-> NoRet]
    /\ mu = FreeMu
    /\ items = [p \in Procs |-> <<>>]
    /\ client = NoClient
    /\ mem = NoMem
    /\ resp = [p \in Procs |-> NoResp]

Next ==
    \E p \in SeqProcs :
        \/ \E in \in SmallInputs : CreateBookCall(p, in)
        \/ \E o \in SmallOutcomes : Fetch(p, o)
        \/ PreCheck(p)
        \/ Insert(p)
        \/ \E id \in IDs : GetBook(p, id)
        \/ \E id \in IDs : DeleteBook(p, id)
        \/ \E b \in StoreBooks : StoreCreate(p, b)
        \/ \E i \in {<<"1">>, <<" ">>} : StoreGetByISBN(p, i)

Spec == Init /\ [][Next]_vars

\* ------------------------------------------------- concurrent CreateBook
\* CreateBook arguments of the race: three spellings of one ISBN key, an ISBN
\* that normalizes to nothing, with and without enrichment.
RaceInputs ==
    {Input(Some(i), Some(<<"A">>), FALSE, FALSE) : i \in {<<"1">>, <<"1", "-">>, <<"-">>}}
    \cup {Input(Some(<<" ", "1">>), Nil, TRUE, r) : r \in BOOLEAN}

\* Every caller calls CreateBook once; the calls interleave at the lookup, at
\* the pre-check and at the insert.
NextRace ==
    \E p \in Procs :
        \/ calls[p] = 0 /\ \E in \in RaceInputs : CreateBookCall(p, in)
        \/ \E o \in SmallOutcomes : Fetch(p, o)
        \/ PreCheck(p)
        \/ Insert(p)

SpecRace == Init /\ [][NextRace]_vars

\* ------------------------------------------------- the store, one caller
\* Records handed to BookRepo.Create: no identifier or one of IDs; no ISBN,
\* two spellings of one key, another key, and an ISBN that normalizes to
\* nothing.
StoreRecords ==
    {[ZeroBook EXCEPT !.ID = id, !.ISBN = i, !.Title = <<"T">>] :
        id \in {EmptyID} \cup IDs,
        i \in OptionOf({<<" ", "1">>, <<"1", "-">>, <<"2">>, <<"-">>})}

\* One caller works on the store: Create and GetByISBN on the repository,
\* GetBook and DeleteBook through the service.
NextStore ==
    \E p \in SeqProcs :
        \/ \E b \in StoreRecords : StoreCreate(p, b)
        \/ \E i \in ISBNStrings : StoreGetByISBN(p, i)
        \/ \E id \in IDs : GetBook(p, id)
        \/ \E id \in IDs : DeleteBook(p, id)

SpecStore == Init /\ [][NextStore]_vars

\* ------------------------------------------------------ one CreateBook call
\* The fields CreateBook only copies, set together: none, all, or half of them.
Copied(sub, cover, tags, authors) ==
    [Subtitle |-> sub, CoverURL |-> cover, Tags |-> tags, Authors |-> authors]
CopiedFields ==
    {Copied(Nil, Nil, <<>>, <<>>),
     Copied(Some(<<"a">>), Some("cover"), << <<"t">> >>, << <<"a">> >>),
     Copied(Some(<<"a">>), Nil, <<>>, << <<"a">> >>),
     Copied(Nil, Some("cover"), << <<"t">> >>, <<>>)}

\* CreateBook arguments: every title, year and page count on both sides of the
\* validation limits, an ISBN that is absent, empty, new, or stored already.
FullInputs ==
    {[ISBN |-> i, Title |-> t, Subtitle |-> c.Subtitle, PublishedYear |-> y,
      PageCount |-> n, CoverURL |-> c.CoverURL, Tags |-> c.Tags,
      Authors |-> c.Authors, Enrich |-> e, RequireEnrichment |-> r] :
        i \in OptionOf({<<>>, <<"2">>, <<"1", "-">>}),
        t \in OptionOf({<<>>, <<"A">>}),
        y \in OptionOf({MinYear - 1, MinYear, MaxYear, MaxYear + 1}),
        n \in OptionOf({MinPageCount - 1, MinPageCount}),
        c \in CopiedFields, e \in BOOLEAN, r \in BOOLEAN}

\* Answers of the lookup: a failure, or a result with each of title, year and
\* page count present or absent and the other fields none, all, or some.
FullOutcomes ==
    {Outcome(TRUE, ZeroEnriched)}
    \cup {Outcome(FALSE, [Title |-> t, Subtitle |-> c.Subtitle, PublishedYear |-> y,
                          PageCount |-> n, CoverURL |-> c.CoverURL,
                          Authors |-> c.Authors]) :
            t \in OptionOf({<<"B">>}), y \in OptionOf({2017}), n \in OptionOf({432}),
            c \in {Copied(Nil, Nil, <<>>, <<>>),
                   Copied(Some(<<"b">>), Some("olcover"), <<>>, << <<"b">> >>),
                   Copied(Some(<<"b">>), Nil, <<>>, <<>>),
                   Copied(Nil, Some("olcover"), <<>>, << <<"b">> >>)}}

\* The record the store holds before the call, in one of the initial states.
PriorBook == [ZeroBook EXCEPT !.ID = 1, !.ISBN = Some(<<"1">>), !.Title = <<"T">>]

\* NewBookRepo, or the repository after BookRepo.Create(PriorBook).
InitCreate ==
    /\ \/ byID = <<>> /\ byISBN = <<>>
       \/ byID = AddEntry(<<>>, PriorBook.ID, PriorBook)
          /\ byISBN = AddEntry(<<>>, normalizeISBN(Deref(PriorBook.ISBN)), PriorBook.ID)
    /\ issued = DOMAIN byID
    /\ now = 0
    /\ pc = [p \in Procs |-> "idle"]
    /\ calls = [p \in Procs |-> 0]
    /\ inp = [p \in Procs |-> ZeroInput]
    /\ bk = [p \in Procs |-> ZeroBook]
    /\ enr = [p \in Procs |-> NoFetch]
    /\ fetches = [p \in Procs |-> <<>>]
    /\ ret = [p \in Procs |-> NoRet]
    /\ mu = FreeMu
    /\ items = [p \in Procs |-> <<>>]
    /\ client = NoClient
    /\ mem = NoMem
    /\ resp = [p \in Procs |-> NoResp]

\* One caller calls CreateBook once.
NextCreate ==
    \E p \in SeqProcs :
        \/ calls[p] = 0 /\ \E in \in FullInputs : CreateBookCall(p, in)
        \/ \E o \in FullOutcomes : Fetch(p, o)
        \/ PreCheck(p)
        \/ Insert(p)

SpecCreate == InitCreate /\ [][NextCreate]_vars

\* ------------------------------------------------- create, delete, create
\* Spellings of one ISBN, and another ISBN.
ReuseISBNs == {<<"1", "-">>, <<" ", "1">>, <<"2">>}
ReuseInputs == {Input(Some(i), Some(<<"A">>), e, FALSE) : i \in ReuseISBNs, e \in BOOLEAN}
ReuseRecords ==
    {[ZeroBook EXCEPT !.ID = id, !.ISBN = Some(i), !.Title = <<"T">>] :
        id \in IDs, i \in ReuseISBNs}

\* One caller creates through the service and on the repository, and deletes.
NextReuse ==
    \E p \in SeqProcs :
        \/ \E in \in ReuseInputs : CreateBookCall(p, in)
        \/ \E o \in SmallOutcomes : Fetch(p, o)
        \/ PreCheck(p)
        \/ Insert(p)
        \/ \E b \in ReuseRecords : StoreCreate(p, b)
        \/ \E id \in IDs : DeleteBook(p, id)

SpecReuse == InitCreate /\ [][NextReuse]_vars

\* ------------------------------------------- Open Library response mapping
\* What the decimal digits stand for; yearRe's \d matches exactly these.
DigitValue ==
    [c \in {"0", "1", "2", "3", "4", "5", "6", "7", "8", "9"} |->
        CASE c = "0" -> 0 [] c = "1" -> 1 [] c = "2" -> 2 [] c = "3" -> 3
          [] c = "4" -> 4 [] c = "5" -> 5 [] c = "6" -> 6 [] c = "7" -> 7
          [] c = "8" -> 8 [] c = "9" -> 9]
IsDigit(c) == c \in DOMAIN DigitValue

\* Where yearRe (\d{4}) matches in s: the starts of four digits in a row.
YearMatches(s) ==
    {i \in 1..(Len(s) - 3) : \A j \in 0..3 : IsDigit(s[i + j])}

\* parseYear: the leftmost run of four digits read as a number (FindString,
\* strconv.Atoi), or an error when there is none.
parseYear(s) ==
    IF YearMatches(s) = {}
    THEN [err |-> TRUE, y |-> 0]
    ELSE LET i == CHOOSE m \in YearMatches(s) : \A n \in YearMatches(s) : m <= n
         IN [err |-> FALSE,
             y |-> 1000 * DigitValue[s[i]] + 100 * DigitValue[s[i + 1]]
                   + 10 * DigitValue[s[i + 2]] + DigitValue[s[i + 3]]]

\* fmt.Sprintf("https://covers.openlibrary.org/b/id/%d-L.jpg", id) for the
\* cover ids the responses below carry.
CoverURLOf(id) == CASE id = 7 -> "https://covers.openlibrary.org/b/id/7-L.jpg"

\* The names of the authors that have a non-empty one, in order.
RECURSIVE AuthorNames(_)
AuthorNames(as) ==
    IF as = <<>> THEN <<>>
    ELSE IF ~IsNil(Head(as).Name) /\ Deref(Head(as).Name) # <<>>
    THEN <<Deref(Head(as).Name)>> \o AuthorNames(Tail(as))
    ELSE AuthorNames(Tail(as))

\* mapToEnriched: the decoded Open Library document as an EnrichedBook.
mapToEnriched(ob) ==
    LET parsed == IF ~IsNil(ob.PublishDate) /\ Len(Deref(ob.PublishDate)) >= 4
                  THEN parseYear(Deref(ob.PublishDate))
                  ELSE [err |-> TRUE, y |-> 0]
    IN [Title |-> ob.Title,
        Subtitle |-> ob.Subtitle,
        PublishedYear |-> IF parsed.err THEN Nil ELSE Some(parsed.y),
        PageCount |-> ob.NumberOfPages,
        CoverURL |-> IF Len(ob.Covers) > 0 THEN Some(CoverURLOf(ob.Covers[1])) ELSE Nil,
        Authors |-> AuthorNames(ob.Authors)]

\* Documents Open Library may answer with: publish dates that are a year, a
\* month and a year, too short, and without four digits in a row.
OpenLibBooks ==
    {[Title |-> t, Subtitle |-> Nil, NumberOfPages |-> n, PublishDate |-> d,
      Covers |-> c.Covers, Authors |-> c.Authors] :
        t \in OptionOf({<<"B">>}),
        n \in OptionOf({0, 432}),
        d \in OptionOf({<<"2", "0", "1", "7">>,
                        <<"M", "a", "y", " ", "1", "0", "6", "6">>,
                        <<"9", "9">>,
                        <<"1", "2", "-", "3", "4">>}),
        c \in {[Covers |-> <<>>, Authors |-> <<>>],
               [Covers |-> <<7>>,
                Authors |-> <<[Name |-> Some(<<"b">>)], [Name |-> Nil],
                              [Name |-> Some(<<>>)]>>]}}

\* What FetchByISBN hands to CreateBook: a failure, or a mapped document.
EnrichOutcomes ==
    {Outcome(TRUE, ZeroEnriched)} \cup {Outcome(FALSE, mapToEnriched(ob)) : ob \in OpenLibBooks}

\* Create inputs with an ISBN to look up, with and without the fields the
\* lookup may fill.
EnrichInputs ==
    {[ZeroInput EXCEPT !.ISBN = i, !.Title = Some(<<"A">>), !.PublishedYear = y,
                       !.PageCount = n, !.Enrich = e, !.RequireEnrichment = r] :
        i \in OptionOf({<<"2">>}), y \in OptionOf({MinYear}),
        n \in OptionOf({MinPageCount}), e \in BOOLEAN, r \in BOOLEAN}

\* One caller calls CreateBook once, the lookup answers with a document.
NextEnrich ==
    \E p \in SeqProcs :
        \/ calls[p] = 0 /\ \E in \in EnrichInputs : CreateBookCall(p, in)
        \/ \E o \in EnrichOutcomes : Fetch(p, o)
        \/ PreCheck(p)
        \/ Insert(p)

SpecEnrich == InitCreate /\ [][NextEnrich]_vars

\* ------------------------------------------------------------ HTTP adapter
\* The sentinels of package model, which mapSvcErr compares with: other
\* values than the sentinels of package core that the service returns.
modelErrValidation == "model: validation"
modelErrConflict == "model: conflict"
modelErrNotFound == "model: not_found"
modelErrUpstream == "model: upstream"

StatusCreated == 201
StatusBadRequest == 400
StatusNotFound == 404
StatusConflict == 409
StatusInternalServerError == 500
StatusBadGateway == 502

\* errors.Is for sentinels made by errors.New that nothing wraps: identity.
ErrorsIs(err, target) == err = target

mapSvcErr(err) ==
    IF ErrorsIs(err, modelErrValidation) THEN Response(StatusBadRequest, "VALIDATION")
    ELSE IF ErrorsIs(err, modelErrConflict) THEN Response(StatusConflict, "CONFLICT")
    ELSE IF ErrorsIs(err, modelErrNotFound) THEN Response(StatusNotFound, "NOT_FOUND")
    ELSE IF ErrorsIs(err, modelErrUpstream) THEN Response(StatusBadGateway, "UPSTREAM")
    ELSE Response(StatusInternalServerError, "INTERNAL")

\* toCreateInput: an empty title is no title, absent tags and authors are
\* nil slices.
toCreateInput(in, enrich, require) ==
    [ISBN |-> in.Isbn,
     Title |-> IF in.Title # <<>> THEN Some(in.Title) ELSE Nil,
     Subtitle |-> in.Subtitle,
     PublishedYear |-> in.PublishedYear,
     PageCount |-> in.PageCount,
     CoverURL |-> in.CoverUrl,
     Tags |-> IF IsNil(in.Tags) THEN <<>> ELSE Deref(in.Tags),
     Authors |-> IF IsNil(in.Authors) THEN <<>> ELSE Deref(in.Authors),
     Enrich |-> enrich,
     RequireEnrichment |-> require]

\* HTTPHandler.CreateBook up to the return of Svc.CreateBook: the two query
\* parameters, the JSON body (body is Nil when it does not decode), the call.
HTTPCreateBook(p, body, enrich, require) ==
    /\ resp[p] = NoResp
    /\ calls[p] = 0
    /\ IF IsNil(body)
       THEN /\ pc[p] = "idle"
            /\ resp' = [resp EXCEPT ![p] = Response(StatusBadRequest, "VALIDATION")]
            /\ UNCHANGED <<byID, byISBN, issued, now, pc, calls, inp, bk, enr, fetches,
                           ret, mu, items, client, mem>>
       ELSE CreateBookCall(p, toCreateInput(Deref(body), enrich = "true", require = "true"))

\* HTTPHandler.CreateBook from the return of Svc.CreateBook on: the error
\* goes through mapSvcErr, a record is answered with 201.
HTTPCreateBookReturns(p) ==
    /\ resp[p] = NoResp
    /\ pc[p] = "idle"
    /\ ret[p].op = "CreateBook"
    /\ resp' = [resp EXCEPT ![p] = IF ret[p].err # OK THEN mapSvcErr(ret[p].err)
                                   ELSE Response(StatusCreated, "")]
    /\ UNCHANGED <<byID, byISBN, issued, now, pc, calls, inp, bk, enr, fetches,
                   ret, mu, items, client, mem>>

\* Bodies that decode into api.BookCreate, and values of a query parameter.
Bodies ==
    {[Isbn |-> i, Title |-> t, Subtitle |-> Nil, PublishedYear |-> y,
      PageCount |-> Nil, CoverUrl |-> Nil, Tags |-> g, Authors |-> Nil] :
        i \in OptionOf({<<"2">>, <<"1", "-">>}),
        t \in {<<>>, <<"A">>},
        y \in OptionOf({MinYear - 1, MinYear}),
        g \in OptionOf({<< <<"t">> >>})}
QueryValues == {"", "true", "1"}
HTTPOutcomes ==
    {Outcome(TRUE, ZeroEnriched),
     Outcome(FALSE, [ZeroEnriched EXCEPT !.Title = Some(<<"B">>)])}

\* One client sends one create request.
NextHTTP ==
    \E p \in SeqProcs :
        \/ \E body \in OptionOf(Bodies) : \E enrich, require \in QueryValues :
               HTTPCreateBook(p, body, enrich, require)
        \/ \E o \in HTTPOutcomes : Fetch(p, o)
        \/ PreCheck(p)
        \/ Insert(p)
        \/ HTTPCreateBookReturns(p)

SpecHTTP == InitCreate /\ [][NextHTTP]_vars

\* ------------------------------------------------------ one ListBooks call
ListIDs == 1..MaxListed

Shape(title, sub, year, authors, tags, created, updated) ==
    [ZeroBook EXCEPT !.Title = title, !.Subtitle = sub, !.PublishedYear = year,
                     !.Authors = authors, !.Tags = tags,
                     !.CreatedAt = created, !.UpdatedAt = updated]

\* What the stored records look like: titles in both cases, with and without
\* subtitle and year, creation times that tie, authors and tags that differ
\* in case only.
ListShapes ==
    {Shape(<<"A", "b">>, Nil, Nil, <<>>, <<>>, 0, 0),
     Shape(<<"A", "b">>, Some(<<"t", "b">>), Some(1999), << <<"B", "a">> >>, << <<"t">> >>, 0, 1),
     Shape(<<"B">>, Some(<<"A">>), Some(2001), << <<"T">>, <<"a", "b">> >>,
           << <<"T">>, <<"t">> >>, 1, 1),
     Shape(<<"a">>, Nil, Some(1999), << <<"b">> >>, << <<"T">> >>, 1, 1),
     Shape(<<"T">>, Nil, Some(2001), <<>>, << <<"t">> >>, 0, 0)}

\* The repositories of up to MaxListed records of these shapes.
ListStores ==
    UNION {{[id \in D |-> [f[id] EXCEPT !.ID = id]] : f \in [D -> ListShapes]} :
              D \in SUBSET ListIDs}

SortLists ==
    {<<>>,
     <<SortKey("title", FALSE)>>, <<SortKey("title", TRUE)>>,
     <<SortKey("published_year", FALSE)>>, <<SortKey("published_year", TRUE)>>,
     <<SortKey("created_at", FALSE)>>, <<SortKey("created_at", TRUE)>>,
     <<SortKey("updated_at", FALSE)>>, <<SortKey("updated_at", TRUE)>>,
     <<SortKey("published_year", FALSE), SortKey("title", TRUE)>>,
     <<SortKey("created_at", TRUE), SortKey("published_year", TRUE)>>,
     <<SortKey("pages", FALSE), SortKey("updated_at", FALSE)>>}

\* ListBooks arguments: every sort list on the unfiltered store, and every
\* combination of the four filters in the default order, on the first page
\* and on a second page of one record.
ListQueries ==
    {Query(Nil, Nil, Nil, Nil, s, 0, 0) : s \in SortLists}
    \cup {Query(qq, a, y, t, <<>>, pg[1], pg[2]) :
            qq \in OptionOf({<<"a">>, <<"B">>, <<>>}), a \in OptionOf({<<"A">>}),
            y \in OptionOf({1999}), t \in OptionOf({<<"t">>}),
            pg \in {<<1, 0>>, <<2, 1>>}}

\* The repository after the creation of the records of one of the ListStores.
InitList ==
    /\ byID \in ListStores
    /\ byISBN = <<>>
    /\ issued = DOMAIN byID
    /\ now = 1
    /\ pc = [p \in Procs |-> "idle"]
    /\ calls = [p \in Procs |-> 0]
    /\ inp = [p \in Procs |-> ZeroInput]
    /\ bk = [p \in Procs |-> ZeroBook]
    /\ enr = [p \in Procs |-> NoFetch]
    /\ fetches = [p \in Procs |-> <<>>]
    /\ ret = [p \in Procs |-> NoRet]
    /\ mu = FreeMu
    /\ items = [p \in Procs |-> <<>>]
    /\ client = NoClient
    /\ mem = NoMem
    /\ resp = [p \in Procs |-> NoResp]

\* One caller calls ListBooks once.
NextList ==
    \E p \in SeqProcs : calls[p] = 0 /\ \E q \in ListQueries : ListBooks(p, q)

SpecList == InitList /\ [][NextList]_vars

\* ------------------------------------------- one ListBooks call, any page
\* The ends of the machine integer.
MinInt == 0 - 2 ^ (IntBits - 1)
MaxInt == 2 ^ (IntBits - 1) - 1

\* Page numbers and page sizes: around zero, around the value whose double
\* no longer fits, and at both ends of the type.
PageInts ==
    {MinInt, -1, 0, 1, 2, 3, 2 ^ (IntBits - 2), 2 ^ (IntBits - 2) + 1, MaxInt - 1, MaxInt}

PageShapes ==
    {Shape(<<"A">>, Nil, Nil, <<>>, << <<"t">> >>, 0, 0),
     Shape(<<"B">>, Nil, Nil, <<>>, <<>>, 1, 1)}

PageStores ==
    UNION {{[id \in D |-> [f[id] EXCEPT !.ID = id]] : f \in [D -> PageShapes]} :
              D \in SUBSET ListIDs}

PageQueries ==
    {Query(Nil, Nil, Nil, t, <<>>, pg, sz) :
        t \in OptionOf({<<"t">>}), pg \in PageInts, sz \in PageInts}

\* The repository after the creation of the records of one of the PageStores.
InitPage ==
    /\ byID \in PageStores
    /\ byISBN = <<>>
    /\ issued = DOMAIN byID
    /\ now = 1
    /\ pc = [p \in Procs |-> "idle"]
    /\ calls = [p \in Procs |-> 0]
    /\ inp = [p \in Procs |-> ZeroInput]
    /\ bk = [p \in Procs |-> ZeroBook]
    /\ enr = [p \in Procs |-> NoFetch]
    /\ fetches = [p \in Procs |-> <<>>]
    /\ ret = [p \in Procs |-> NoRet]
    /\ mu = FreeMu
    /\ items = [p \in Procs |-> <<>>]
    /\ client = NoClient
    /\ mem = NoMem
    /\ resp = [p \in Procs |-> NoResp]

\* One caller calls ListBooks once, with any page and page size.
NextPage ==
    \E p \in SeqProcs : calls[p] = 0 /\ \E q \in PageQueries : ListBooks(p, q)

SpecPage == InitPage /\ [][NextPage]_vars

\* --------------------------------------------- the store, step by step
\* Where a caller of the store stands: waiting for the mutex, inside a write
\* or a read critical section, or in the part of List that runs unlocked.
WriteWaits == {"Create.Lock", "Delete.Lock"}
ReadWaits == {"GetByID.RLock", "GetByISBN.RLock", "List.RLock"}
WriteSections == {"Create.locked", "Create.byID", "Delete.locked", "Delete.byID"}
ReadSections == {"GetByID.locked", "GetByISBN.locked", "List.locked"}

\* The arguments of a store method: the record of Create, the id of Delete
\* and GetByID, the isbn of GetByISBN, the query of List.
Arg(book, id, isbn, q) == [book |-> book, id |-> id, isbn |-> isbn, q |-> q]

\* A store method is called: its first statement is the Lock or RLock it waits in.
Invoke(p, method, arg) ==
    /\ Start(p)
    /\ calls[p] = 0
    /\ method \in WriteWaits \cup ReadWaits
    /\ pc' = [pc EXCEPT ![p] = method]
    /\ inp' = [inp EXCEPT ![p] = arg]
    /\ UNCHANGED <<byID, byISBN, issued, now, bk, enr, fetches, ret, mu, items, client, mem, resp>>

\* r.mu.Lock() that does not wait for the readers to leave.
Lock_IgnoresReaders(p) ==
    /\ pc[p] \in WriteWaits
    /\ mu.writer = NoProc
    /\ mu' = [mu EXCEPT !.writer = p]
    /\ pc' = [pc EXCEPT ![p] = IF pc[p] = "Create.Lock" THEN "Create.locked"
                                                        ELSE "Delete.locked"]
    /\ UNCHANGED <<byID, byISBN, issued, now, calls, inp, bk, enr, fetches, ret, items, client, mem, resp>>

\* r.mu.Lock(): returns once no writer and no reader holds the mutex.
Lock(p) ==
    /\ pc[p] \in WriteWaits
    /\ mu = FreeMu
    /\ mu' = [mu EXCEPT !.writer = p]
    /\ pc' = [pc EXCEPT ![p] = IF pc[p] = "Create.Lock" THEN "Create.locked"
                                                        ELSE "Delete.locked"]
    /\ UNCHANGED <<byID, byISBN, issued, now, calls, inp, bk, enr, fetches, ret, items, client, mem, resp>>

\* r.mu.RLock() that does not wait for a writer to leave.
RLock_IgnoresWriter(p) ==
    /\ pc[p] \in ReadWaits
    /\ mu' = [mu EXCEPT !.readers = @ \cup {p}]
    /\ pc' = [pc EXCEPT ![p] = CASE pc[p] = "GetByID.RLock" -> "GetByID.locked"
                                 [] pc[p] = "GetByISBN.RLock" -> "GetByISBN.locked"
                                 [] OTHER -> "List.locked"]
    /\ UNCHANGED <<byID, byISBN, issued, now, calls, inp, bk, enr, fetches, ret, items, client, mem, resp>>

\* r.mu.RLock(): returns once no writer holds the mutex.
RLock(p) ==
    /\ pc[p] \in ReadWaits
    /\ mu.writer = NoProc
    /\ mu' = [mu EXCEPT !.readers = @ \cup {p}]
    /\ pc' = [pc EXCEPT ![p] = CASE pc[p] = "GetByID.RLock" -> "GetByID.locked"
                                 [] pc[p] = "GetByISBN.RLock" -> "GetByISBN.locked"
                                 [] OTHER -> "List.locked"]
    /\ UNCHANGED <<byID, byISBN, issued, now, calls, inp, bk, enr, fetches, ret, items, client, mem, resp>>

\* r.mu.Unlock() and r.mu.RUnlock(), deferred or explicit.
Unlock(p) == mu' = [mu EXCEPT !.writer = IF @ = p THEN NoProc ELSE @]
RUnlock(p) == mu' = [mu EXCEPT !.readers = @ \ {p}]

\* BookRepo.Create under the lock: the three checks, then the index entry.
CreateCheck(p) ==
    /\ pc[p] = "Create.locked"
    /\ LET r == Create(inp[p].book)
       IN IF r.err # OK
          THEN /\ Return(p, Ret("Repo.Create", r.err, inp[p], ZeroBook, ZeroPage))
               /\ Unlock(p)
               /\ UNCHANGED <<byID, byISBN>>
          ELSE /\ byISBN' = r.byISBN
               /\ pc' = [pc EXCEPT ![p] = "Create.byID"]
               /\ UNCHANGED <<byID, mu, ret, bk>>
    /\ UNCHANGED <<issued, now, calls, inp, enr, fetches, items, client, mem, resp>>

\* BookRepo.Create under the lock: the record goes into byID, the call returns.
CreateStore(p) ==
    /\ pc[p] = "Create.byID"
    /\ byID' = AddEntry(byID, inp[p].book.ID, copyBook(inp[p].book))
    /\ Return(p, Ret("Repo.Create", OK, inp[p], copyBook(inp[p].book), ZeroPage))
    /\ Unlock(p)
    /\ UNCHANGED <<byISBN, issued, now, calls, inp, enr, fetches, items, client, mem, resp>>

\* BookRepo.Delete under the lock: the lookup, then the index entry goes.
DeleteCheck(p) ==
    /\ pc[p] = "Delete.locked"
    /\ LET r == Delete(inp[p].id)
       IN IF r.err # OK
          THEN /\ Return(p, Ret("Repo.Delete", r.err, inp[p], ZeroBook, ZeroPage))
               /\ Unlock(p)
               /\ UNCHANGED <<byID, byISBN>>
          ELSE /\ byISBN' = r.byISBN
               /\ pc' = [pc EXCEPT ![p] = "Delete.byID"]
               /\ UNCHANGED <<byID, mu, ret, bk>>
    /\ UNCHANGED <<issued, now, calls, inp, enr, fetches, items, client, mem, resp>>

\* BookRepo.Delete under the lock: the record goes, the call returns.
DeleteRemove(p) ==
    /\ pc[p] = "Delete.byID"
    /\ byID' = DropEntry(byID, inp[p].id)
    /\ Return(p, Ret("Repo.Delete", OK, inp[p], ZeroBook, ZeroPage))
    /\ Unlock(p)
    /\ UNCHANGED <<byISBN, issued, now, calls, inp, enr, fetches, items, client, mem, resp>>

\* BookRepo.GetByID and BookRepo.GetByISBN under the read lock.
ReadByID(p) ==
    /\ pc[p] = "GetByID.locked"
    /\ LET r == GetByID(inp[p].id)
       IN Return(p, Ret("Repo.GetByID", r.err, inp[p], r.book, ZeroPage))
    /\ RUnlock(p)
    /\ UNCHANGED <<byID, byISBN, issued, now, calls, inp, enr, fetches, items, client, mem, resp>>

ReadByISBN(p) ==
    /\ pc[p] = "GetByISBN.locked"
    /\ LET r == GetByISBN(inp[p].isbn)
       IN Return(p, Ret("Repo.GetByISBN", r.err, inp[p], r.book, ZeroPage))
    /\ RUnlock(p)
    /\ UNCHANGED <<byID, byISBN, issued, now, calls, inp, enr, fetches, items, client, mem, resp>>

\* BookRepo.List under the read lock: the copy of the records, in the order
\* the map yields them, then RUnlock.
ListSnapshot(p) ==
    /\ pc[p] = "List.locked"
    /\ \E snapshot \in Snapshots : items' = [items EXCEPT ![p] = snapshot]
    /\ RUnlock(p)
    /\ pc' = [pc EXCEPT ![p] = "List.sort"]
    /\ UNCHANGED <<byID, byISBN, issued, now, calls, inp, bk, enr, fetches, ret, client, mem, resp>>

\* BookRepo.List after RUnlock: filter, sort and paginate the private copy.
ListFinish(p) ==
    /\ pc[p] = "List.sort"
    /\ LET r == List(items[p], inp[p].q)
       IN Return(p, Ret("Repo.List", r.err, inp[p], ZeroBook, r.page))
    /\ items' = [items EXCEPT ![p] = <<>>]
    /\ UNCHANGED <<byID, byISBN, issued, now, calls, inp, enr, fetches, mu, client, mem, resp>>

\* Records the callers create, and the one query they list with.
LockRecords ==
    {[ZeroBook EXCEPT !.ID = id, !.ISBN = i, !.Title = <<"T">>] :
        id \in IDs, i \in OptionOf({<<"1", "-">>})}
LockQuery == Query(Nil, Nil, Nil, Nil, <<SortKey("title", FALSE)>>, 0, 0)
NoArg == Arg(ZeroBook, EmptyID, <<>>, LockQuery)

\* The repository after NewBookRepo, after BookRepo.Create(PriorBook), or
\* after the creation of a second record, one without ISBN.
OtherBook == [ZeroBook EXCEPT !.ID = 2, !.Title = <<"A">>, !.CreatedAt = 1, !.UpdatedAt = 1]
InitLock ==
    /\ \/ byID = <<>> /\ byISBN = <<>>
       \/ byID = AddEntry(<<>>, PriorBook.ID, PriorBook)
          /\ byISBN = AddEntry(<<>>, normalizeISBN(Deref(PriorBook.ISBN)), PriorBook.ID)
       \/ byID = AddEntry(AddEntry(<<>>, PriorBook.ID, PriorBook), OtherBook.ID, OtherBook)
          /\ byISBN = AddEntry(<<>>, normalizeISBN(Deref(PriorBook.ISBN)), PriorBook.ID)
    /\ issued = DOMAIN byID
    /\ now = 1
    /\ pc = [p \in Procs |-> "idle"]
    /\ calls = [p \in Procs |-> 0]
    /\ inp = [p \in Procs |-> NoArg]
    /\ bk = [p \in Procs |-> ZeroBook]
    /\ enr = [p \in Procs |-> NoFetch]
    /\ fetches = [p \in Procs |-> <<>>]
    /\ ret = [p \in Procs |-> [NoRet EXCEPT !.arg = NoArg]]
    /\ mu = FreeMu
    /\ items = [p \in Procs |-> <<>>]
    /\ client = NoClient
    /\ mem = NoMem
    /\ resp = [p \in Procs |-> NoResp]

\* What a caller inside a store method does next.
Proceed(p) ==
    \/ Lock(p)
    \/ RLock(p)
    \/ CreateCheck(p)
    \/ CreateStore(p)
    \/ DeleteCheck(p)
    \/ DeleteRemove(p)
    \/ ReadByID(p)
    \/ ReadByISBN(p)
    \/ ListSnapshot(p)
    \/ ListFinish(p)

\* Callers of the store, each in its own goroutine, one method each.
NextLock ==
    \E p \in Procs :
        \/ \E b \in LockRecords : Invoke(p, "Create.Lock", [NoArg EXCEPT !.book = b])
        \/ \E id \in IDs : Invoke(p, "Delete.Lock", [NoArg EXCEPT !.id = id])
        \/ \E id \in IDs : Invoke(p, "GetByID.RLock", [NoArg EXCEPT !.id = id])
        \/ Invoke(p, "GetByISBN.RLock", [NoArg EXCEPT !.isbn = <<"1">>])
        \/ Invoke(p, "List.RLock", NoArg)
        \/ Proceed(p)

SpecLock == InitLock /\ [][NextLock]_vars

\* The repository after NewBookRepo or after BookRepo.Create(PriorBook).
InitFair == InitLock /\ OtherBook.ID \notin DOMAIN byID

\* The same callers with the arguments that decide a return path: a record
\* with PriorBook's id, with and without an ISBN; PriorBook's id; one ISBN.
NextFair ==
    \E p \in Procs :
        \/ \E b \in {r \in LockRecords : r.ID = PriorBook.ID} :
               Invoke(p, "Create.Lock", [NoArg EXCEPT !.book = b])
        \/ Invoke(p, "Delete.Lock", [NoArg EXCEPT !.id = PriorBook.ID])
        \/ Invoke(p, "GetByID.RLock", [NoArg EXCEPT !.id = PriorBook.ID])
        \/ Invoke(p, "GetByISBN.RLock", [NoArg EXCEPT !.isbn = <<"1">>])
        \/ Invoke(p, "List.RLock", NoArg)
        \/ Proceed(p)

\* Each caller is scheduled again and again while it can take a step.
SpecLockFair ==
    InitFair /\ [][NextFair]_vars /\ \A p \in Procs : WF_vars(Proceed(p))

\* ------------------------------------------------- the life of a record
\* CreateBook arguments: with and without an ISBN, with and without the lookup.
LifeInputs ==
    {Input(Nil, Some(<<"A">>), FALSE, FALSE),
     Input(Some(<<"1">>), Some(<<"A">>), FALSE, FALSE),
     Input(Some(<<"2">>), Nil, TRUE, FALSE)}

\* Records handed to BookRepo.Create directly, under any identifier.
LifeRecords == {[ZeroBook EXCEPT !.ID = id, !.Title = <<"T">>] : id \in IDs}

\* One caller creates, reads, lists and deletes, through the service and on
\* the repository itself.
NextLife ==
    \E p \in SeqProcs :
        \/ \E in \in LifeInputs : CreateBookCall(p, in)
        \/ \E o \in SmallOutcomes : Fetch(p, o)
        \/ PreCheck(p)
        \/ Insert(p)
        \/ \E b \in LifeRecords : StoreCreate(p, b)
        \/ \E id \in IDs : GetBook(p, id)
        \/ \E i \in {<<"1">>, <<"2">>} : StoreGetByISBN(p, i)
        \/ ListBooks(p, LockQuery)
        \/ \E id \in IDs : DeleteBook(p, id)

SpecLife == Init /\ [][NextLife]_vars

\* ------------------------------------------------- one FetchByISBN call
\* A client is made with any retry count from -1 to MaxRetry, FetchByISBN is
\* called once, and its context is cancelled at any moment or never.
NextFetch ==
    \/ \E retry \in -1..MaxRetry : NewOpenLibraryClient(retry)
    \/ FetchByISBN
    \/ Cancel
    \/ Do
    \/ \E err \in {OK, errNotFound, errStatus, errDecode, errDoCanceled} : fetchOnce(err)
    \/ TimeAfter
    \/ CtxDone

SpecFetch == Init /\ [][NextFetch]_vars

\* The call proceeds while it can: the Go scheduler runs it, Client.Do comes
\* back, the timer of time.After delivers.
Advance == FetchByISBN \/ Do \/ (\E err \in Answers(client) : fetchOnce(err)) \/ TimeAfter \/ CtxDone

SpecFetchFair == SpecFetch /\ WF_vars(Advance)

\* ------------------------------------------------- callers and their slices
\* Tags and Authors of callers: a tag and no author, an author and no tag.
NameLists == {[Tags |-> << <<"t">> >>, Authors |-> <<>>],
              [Tags |-> <<>>, Authors |-> << <<"a">> >>]}

\* One caller creates through the service and on the store, reads, lists,
\* and writes to the slices it has in hand.
NextMem ==
    \E p \in SeqProcs :
        \/ \E id \in IDs, i \in OptionOf({<<"1">>}), l \in NameLists :
               MemStoreCreate(p, id, i, l.Tags, l.Authors)
        \/ \E l \in NameLists : MemCreateBook(p, l.Tags, l.Authors)
        \/ \E id \in IDs : MemGetByID(p, id)
        \/ MemGetByISBN(p, <<"1">>)
        \/ MemList(p)
        \/ Scribble(p, 1, <<"b">>)

SpecMem == Init /\ [][NextMem]_vars

\* ------------------------------------------------------ claims: vocabulary
\* An ISBN with hyphens and spaces removed, as the specification words it.
Stripped(s) == SelectSeq(s, LAMBDA c : c \notin {"-", " "})

Conflicts == {ErrConflict, errConflict}
NotFounds == {ErrNotFound, errNotFound}
Creates == {"CreateBook", "Repo.Create"}

\* Some stored record's ISBN normalizes to k.
HoldsKey(k) ==
    \E id \in DOMAIN byID :
        ~IsNil(byID[id].ISBN) /\ Stripped(Deref(byID[id].ISBN)) = k

\* The pointer is an ISBN whose normalization some stored record shares.
Duplicate(ptr) == ~IsNil(ptr) /\ HoldsKey(Stripped(Deref(ptr)))
DuplicateNonEmpty(ptr) == Duplicate(ptr) /\ Stripped(Deref(ptr)) # <<>>

\* Caller p starts an operation / returns from one in this step.
Starts(p) == calls'[p] = calls[p] + 1
Returns(p, op) ==
    /\ pc'[p] = "idle"
    /\ ret'[p].op = op
    /\ pc[p] # "idle" \/ Starts(p)

\* ---------------------------------------------------------------- claim C1
\* C1 as stated: whenever a stored record's ISBN normalizes to the same string
\* as the ISBN of a record being created, the creation fails with Conflict and
\* leaves the store as it was, through Service.CreateBook and through
\* BookRepo.Create.
C1_AnyKeyConflicts ==
    [][\A p \in Procs :
        /\ (Returns(p, "CreateBook") /\ Duplicate(inp'[p].ISBN))
              => (ret'[p].err \in Conflicts /\ repo' = repo)
        /\ (Returns(p, "Repo.Create") /\ Duplicate(ret'[p].arg.ISBN))
              => (ret'[p].err \in Conflicts /\ repo' = repo)]_vars

\* C1 (amended): when a stored record's ISBN normalizes to the same non-empty
\* string as the ISBN of a record being created, the creation fails and leaves
\* the store as it was: BookRepo.Create fails with Conflict; Service.CreateBook
\* never passes its pre-check, fails with Conflict once it has passed
\* validation and enrichment, and with Validation or Upstream before that.
C1_DuplicateKeyConflicts ==
    [][\A p \in Procs :
        /\ (Returns(p, "CreateBook") /\ DuplicateNonEmpty(inp'[p].ISBN))
              => /\ ret'[p].err \in Conflicts \cup {ErrValidation, ErrUpstream}
                 /\ pc[p] \in {"precheck", "insert"} => ret'[p].err \in Conflicts
                 /\ repo' = repo
        /\ (pc[p] = "precheck" /\ DuplicateNonEmpty(inp[p].ISBN) /\ pc'[p] # pc[p])
              => Returns(p, "CreateBook")
        /\ (Returns(p, "Repo.Create") /\ DuplicateNonEmpty(ret'[p].arg.ISBN))
              => (ret'[p].err = errConflict /\ repo' = repo)]_vars

\* C1's case: a create was refused with Conflict while the store holds a record
\* whose ISBN is spelled differently and normalizes to the same non-empty string.
C1_Witness ==
    \E p \in Procs : \E id \in DOMAIN byID :
        /\ ret[p].op = "CreateBook"
        /\ ret[p].err \in Conflicts
        /\ DuplicateNonEmpty(inp[p].ISBN)
        /\ ~IsNil(byID[id].ISBN)
        /\ byID[id].ISBN # inp[p].ISBN
        /\ Stripped(Deref(byID[id].ISBN)) = Stripped(Deref(inp[p].ISBN))

\* ---------------------------------------------------------------- claim C2
\* The callers whose one CreateBook call carries an ISBN normalizing to k.
Contenders(k) ==
    {p \in Procs : calls[p] = 1 /\ ~IsNil(inp[p].ISBN) /\ Stripped(Deref(inp[p].ISBN)) = k}
Finished(k) == {p \in Contenders(k) : pc[p] = "idle"}
Won(k) == {p \in Finished(k) : ret[p].err = OK}

\* C2: in every interleaving of concurrent CreateBook calls whose ISBNs
\* normalize to the same non-empty string k, no state of the store holds two
\* records of key k, at most one call has succeeded, every other finished call
\* has failed with one of the errors the interface names, and once all the
\* calls have returned, exactly one has succeeded unless every one of them
\* failed its required enrichment.
C2_OneWinner ==
    \A s \in ISBNStrings :
        LET k == Stripped(s)
        IN k # <<>> =>
            /\ Cardinality({id \in DOMAIN byID :
                   ~IsNil(byID[id].ISBN) /\ Stripped(Deref(byID[id].ISBN)) = k}) <= 1
            /\ Cardinality(Won(k)) <= 1
            /\ \A p \in Finished(k) \ Won(k) :
                   ret[p].err \in Conflicts \cup {ErrUpstream}
            /\ (/\ Finished(k) = Contenders(k)
                /\ \E p \in Finished(k) : ret[p].err # ErrUpstream)
                  => Cardinality(Won(k)) = 1

\* C2's case: two calls with different spellings of one ISBN both passed the
\* pre-check; one inserted, the other was refused by the store's own check.
C2_Witness ==
    \E p, q \in Procs :
        /\ p # q
        /\ pc[p] = "idle" /\ pc[q] = "idle"
        /\ ret[p].op = "CreateBook" /\ ret[p].err = OK
        /\ ret[q].op = "CreateBook" /\ ret[q].err = errConflict
        /\ inp[p].ISBN # inp[q].ISBN
        /\ Stripped(Deref(inp[p].ISBN)) = Stripped(Deref(inp[q].ISBN))
        /\ Stripped(Deref(inp[p].ISBN)) # <<>>

\* ---------------------------------------------------------------- claim C3
\* Caller p is inside CreateBook, or enters it, and moves in this step.
StartsCreate(p) == Starts(p) /\ (pc'[p] # "idle" \/ ret'[p].op = "CreateBook")
LookupAnswers(p) == pc[p] = "fetch" /\ Len(fetches'[p]) = Len(fetches[p]) + 1

\* C3: when CreateBook is called with Enrich and RequireEnrichment set and a
\* non-empty ISBN and the lookup fails, the call returns Upstream with no
\* record, and neither its start nor the failed lookup changes the store.
C3_RequiredLookupFails ==
    [][\A p \in Procs :
        /\ (StartsCreate(p) /\ pc'[p] = "fetch") => repo' = repo
        /\ (LookupAnswers(p) /\ enr'[p].err /\ inp[p].Enrich /\ inp[p].RequireEnrichment)
              => /\ ~IsNil(inp[p].ISBN) /\ Deref(inp[p].ISBN) # <<>>
                 /\ Returns(p, "CreateBook")
                 /\ ret'[p].err = ErrUpstream
                 /\ ret'[p].book = ZeroBook
                 /\ repo' = repo]_vars

\* C3's case: a required lookup failed, the call returned Upstream, and the
\* store still holds the one record it held before and nothing else.
C3_Witness ==
    \E p \in Procs :
        /\ pc[p] = "idle" /\ ret[p].op = "CreateBook" /\ ret[p].err = ErrUpstream
        /\ inp[p].Enrich /\ inp[p].RequireEnrichment
        /\ Len(fetches[p]) = 1 /\ enr[p].err
        /\ DOMAIN byID = {PriorBook.ID}

\* ---------------------------------------------------------------- claim C4
\* The caller's value where one was supplied, the enrichment value otherwise.
Chosen(mine, theirs) == IF ~IsNil(mine) THEN mine ELSE theirs

\* Caller p's CreateBook has returned the record stored under id.
Stored(p, id) ==
    /\ pc[p] = "idle" /\ ret[p].op = "CreateBook" /\ ret[p].err = OK
    /\ id \in DOMAIN byID /\ ret[p].book.ID = id

\* C4: after a successful lookup, each of title, subtitle, publication year,
\* page count, cover URL and authors of the stored record is the caller's value
\* where the caller supplied one (a non-empty title, a non-empty author list)
\* and the enrichment value otherwise, and the enrichment status is ok.
C4_CallerWins ==
    \A p \in Procs : \A id \in DOMAIN byID :
        (Stored(p, id) /\ Len(fetches[p]) > 0 /\ ~enr[p].err) =>
            LET b == byID[id]
                e == enr[p].res
                in == inp[p]
            IN /\ b.Title = IF ~IsNil(in.Title) /\ Deref(in.Title) # <<>>
                            THEN Deref(in.Title)
                            ELSE IF ~IsNil(e.Title) THEN Deref(e.Title) ELSE <<>>
               /\ b.Subtitle = Chosen(in.Subtitle, e.Subtitle)
               /\ b.PublishedYear = Chosen(in.PublishedYear, e.PublishedYear)
               /\ b.PageCount = Chosen(in.PageCount, e.PageCount)
               /\ b.CoverURL = Chosen(in.CoverURL, e.CoverURL)
               /\ b.Authors = IF in.Authors # <<>> THEN in.Authors ELSE e.Authors
               /\ b.Enrichment.Status = EnrichmentOK
               /\ ret[p].book = b

\* C4's case: the lookup answered with a title and a year, the caller had
\* supplied a different title and no year, and the record is stored.
C4_Witness ==
    \E p \in Procs : \E id \in DOMAIN byID :
        /\ Stored(p, id) /\ Len(fetches[p]) = 1 /\ ~enr[p].err
        /\ inp[p].Title = Some(<<"A">>) /\ enr[p].res.Title = Some(<<"B">>)
        /\ IsNil(inp[p].PublishedYear) /\ ~IsNil(enr[p].res.PublishedYear)
        /\ byID[id].Title = <<"A">>
        /\ byID[id].PublishedYear = enr[p].res.PublishedYear

\* ---------------------------------------------------------------- claim C5
\* C5: when CreateBook is called with Enrich set, RequireEnrichment unset and a
\* non-empty ISBN and the lookup fails, the call is not failed by it: unless
\* the ISBN is stored already, the record is persisted with enrichment status
\* partial and with every caller-supplied field exactly as supplied.
C5_ToleratedLookupFails ==
    \A p \in Procs :
        (/\ pc[p] = "idle" /\ ret[p].op = "CreateBook"
         /\ inp[p].Enrich /\ ~inp[p].RequireEnrichment
         /\ ~IsNil(inp[p].ISBN) /\ Deref(inp[p].ISBN) # <<>>
         /\ Len(fetches[p]) > 0 /\ enr[p].err) =>
            \/ ret[p].err = ErrConflict /\ DuplicateNonEmpty(inp[p].ISBN)
            \/ /\ Stored(p, ret[p].book.ID)
               /\ LET b == byID[ret[p].book.ID]
                      in == inp[p]
                  IN /\ b.Enrichment.Status = EnrichmentPartial
                     /\ b.ISBN = in.ISBN
                     /\ b.Title = (IF IsNil(in.Title) THEN <<>> ELSE Deref(in.Title))
                     /\ b.Subtitle = in.Subtitle
                     /\ b.PublishedYear = in.PublishedYear
                     /\ b.PageCount = in.PageCount
                     /\ b.CoverURL = in.CoverURL
                     /\ b.Tags = in.Tags
                     /\ b.Authors = in.Authors
                     /\ ret[p].book = b

\* C5's case: an optional lookup failed and the record is stored as partial,
\* next to the record the store held before.
C5_Witness ==
    \E p \in Procs : \E id \in DOMAIN byID :
        /\ Stored(p, id) /\ Len(fetches[p]) = 1 /\ enr[p].err
        /\ inp[p].Enrich /\ ~inp[p].RequireEnrichment
        /\ byID[id].Enrichment.Status = EnrichmentPartial
        /\ byID[id].Title = <<"A">>
        /\ ~IsNil(byID[id].Subtitle)
        /\ PriorBook.ID \in DOMAIN byID \ {id}

\* ---------------------------------------------------------------- claim C6
\* The inputs the specification has CreateBook refuse.
Invalid(in) ==
    \/ (IsNil(in.Title) \/ Deref(in.Title) = <<>>) /\ ~(in.Enrich /\ ~IsNil(in.ISBN))
    \/ ~IsNil(in.PageCount) /\ Deref(in.PageCount) < 1
    \/ ~IsNil(in.PublishedYear)
       /\ (Deref(in.PublishedYear) < 1450 \/ Deref(in.PublishedYear) > 3000)

\* C6: CreateBook fails with Validation exactly when the title is absent or
\* empty while not (Enrich and an ISBN supplied), or a page count below 1 is
\* given, or a year outside [1450, 3000] is given; the failing call returns at
\* once, without a lookup and without a change of the store.
C6_ValidationExactly ==
    [][\A p \in Procs :
        /\ StartsCreate(p) =>
              /\ Invalid(inp'[p]) <=> (Returns(p, "CreateBook") /\ ret'[p].err = ErrValidation)
              /\ Invalid(inp'[p]) => (fetches'[p] = <<>> /\ repo' = repo /\ ret'[p].book = ZeroBook)
        /\ (Returns(p, "CreateBook") /\ ~Starts(p)) => ret'[p].err # ErrValidation]_vars

\* C6's case: a call with a title, enrichment requested and a year just above
\* the range was refused without a lookup, the stored record untouched.
C6_Witness ==
    \E p \in Procs :
        /\ pc[p] = "idle" /\ ret[p].op = "CreateBook" /\ ret[p].err = ErrValidation
        /\ inp[p].Title = Some(<<"A">>)
        /\ inp[p].PublishedYear = Some(MaxYear + 1)
        /\ inp[p].Enrich /\ inp[p].ISBN = Some(<<"2">>)
        /\ Len(fetches[p]) = 0
        /\ byID = AddEntry(<<>>, PriorBook.ID, PriorBook)

\* ---------------------------------------------------------------- claim C7
\* C7: a successful create makes GetByID return a record with that identifier;
\* a successful Delete makes GetByID for the identifier, and GetByISBN for the
\* record's ISBN if it had one, fail with NotFound; and a lookup that fails with
\* NotFound keeps failing until a create stores a record under that identifier
\* (or that ISBN key).
C7_Lifecycle ==
    [][/\ \A p \in Procs : \A id \in IDs :
            /\ (\E op \in Creates :
                    Returns(p, op) /\ ret'[p].err = OK /\ ret'[p].book.ID = id)
                  => (GetByID(id)'.err = OK /\ GetByID(id)'.book.ID = id)
            /\ (Returns(p, "DeleteBook") /\ ret'[p].err = OK /\ ret'[p].arg = id)
                  => /\ id \in DOMAIN byID
                     /\ GetByID(id)'.err \in NotFounds
                     /\ \A s \in ISBNStrings :
                            byID[id].ISBN = Some(s) => GetByISBN(s)'.err \in NotFounds
       /\ \A id \in IDs :
            (GetByID(id).err \in NotFounds /\ GetByID(id)'.err = OK)
                => \E q \in Procs : \E op \in Creates :
                       Returns(q, op) /\ ret'[q].err = OK /\ ret'[q].book.ID = id
       /\ \A s \in ISBNStrings :
            (GetByISBN(s).err \in NotFounds /\ GetByISBN(s)'.err = OK)
                => \E q \in Procs : \E op \in Creates :
                       /\ Returns(q, op) /\ ret'[q].err = OK
                       /\ ~IsNil(ret'[q].book.ISBN)
                       /\ Stripped(Deref(ret'[q].book.ISBN)) = Stripped(s)]_vars

\* C7's case: a Delete has succeeded and the record is gone.
C7_Witness ==
    \E p \in Procs :
        /\ ret[p].op = "DeleteBook"
        /\ ret[p].err = OK
        /\ GetByID(ret[p].arg).err \in NotFounds
        /\ issued # {}

\* ---------------------------------------------------------------- claim C8
\* Caller p's ListBooks has returned a page.
Listed(p) == pc[p] = "idle" /\ ret[p].op = "ListBooks" /\ ret[p].err = OK

\* The record satisfies every filter the query provides.
Satisfies(b, q) ==
    /\ ~IsNil(q.Q) =>
          \/ Contains(ToLower(b.Title), ToLower(Deref(q.Q)))
          \/ Contains(ToLower(valueOr(b.Subtitle, <<>>)), ToLower(Deref(q.Q)))
    /\ ~IsNil(q.Author) =>
          \E i \in DOMAIN b.Authors : Contains(ToLower(b.Authors[i]), ToLower(Deref(q.Author)))
    /\ ~IsNil(q.Tag) => \E i \in DOMAIN b.Tags : b.Tags[i] = Deref(q.Tag)
    /\ ~IsNil(q.Year) => b.PublishedYear = q.Year

\* C8: a record appears in a ListBooks result if and only if it satisfies every
\* provided filter: every record of the returned page is a stored record that
\* satisfies them all, once; the total counts exactly the stored records that
\* do; and a first page at least as long as the total holds every one of them.
C8_FilterConjunction ==
    \A p \in Procs :
        Listed(p) =>
            LET q == ret[p].arg
                d == ret[p].page.Data
                matching == {id \in DOMAIN byID : Satisfies(byID[id], q)}
            IN /\ \A i \in DOMAIN d : d[i].ID \in matching /\ d[i] = byID[d[i].ID]
               /\ \A i, j \in DOMAIN d : i # j => d[i].ID # d[j].ID
               /\ ret[p].page.Total = Cardinality(matching)
               /\ (ret[p].page.Page = 1 /\ ret[p].page.Total <= ret[p].page.PageSize)
                     => {d[i].ID : i \in DOMAIN d} = matching

\* C8's case: a query with a text and a tag returned a record, and left out
\* one record that matches the text alone and one that has the tag alone.
C8_Witness ==
    \E p \in Procs : \E x, y \in DOMAIN byID :
        /\ Listed(p)
        /\ ~IsNil(ret[p].arg.Q) /\ ~IsNil(ret[p].arg.Tag)
        /\ IsNil(ret[p].arg.Author) /\ IsNil(ret[p].arg.Year)
        /\ Len(ret[p].page.Data) = 1
        /\ Satisfies(byID[x], [ret[p].arg EXCEPT !.Tag = Nil])
        /\ ~Satisfies(byID[x], [ret[p].arg EXCEPT !.Q = Nil])
        /\ Satisfies(byID[y], [ret[p].arg EXCEPT !.Q = Nil])
        /\ ~Satisfies(byID[y], [ret[p].arg EXCEPT !.Tag = Nil])

\* ---------------------------------------------------------------- claim C9
\* C9: with no sort key, ListBooks returns the records ordered by created_at
\* descending, and records created at the same time by ascending id.
C9_DefaultOrder ==
    \A p \in Procs :
        (Listed(p) /\ ret[p].arg.Sort = <<>>) =>
            LET d == ret[p].page.Data
            IN \A i, j \in DOMAIN d :
                   i < j => \/ d[i].CreatedAt > d[j].CreatedAt
                            \/ d[i].CreatedAt = d[j].CreatedAt /\ d[i].ID < d[j].ID

\* --------------------------------------------------------------- claim C10
\* Record a against record b on one key, ascending: -1 before, 1 after, 0 equal
\* on it. An absent year is before every year; a field that is no sort field
\* orders nothing.
Sign(lt, gt) == IF lt THEN -1 ELSE IF gt THEN 1 ELSE 0
Ascending(fld, a, b) ==
    CASE fld = "title" -> Sign(StrLess(a.Title, b.Title), StrLess(b.Title, a.Title))
      [] fld = "published_year" ->
            Sign(valueOr(a.PublishedYear, -1) < valueOr(b.PublishedYear, -1),
                 valueOr(a.PublishedYear, -1) > valueOr(b.PublishedYear, -1))
      [] fld = "created_at" -> Sign(a.CreatedAt < b.CreatedAt, a.CreatedAt > b.CreatedAt)
      [] fld = "updated_at" -> Sign(a.UpdatedAt < b.UpdatedAt, a.UpdatedAt > b.UpdatedAt)
      [] OTHER -> 0
Directed(k, a, b) == IF k.Desc THEN 0 - Ascending(k.Field, a, b) ELSE Ascending(k.Field, a, b)

\* a is before b: on the first key they differ on, and by id if on none.
Before(keys, a, b) ==
    \E n \in 1..(Len(keys) + 1) :
        /\ \A m \in 1..(n - 1) : Directed(keys[m], a, b) = 0
        /\ IF n <= Len(keys) THEN Directed(keys[n], a, b) = -1 ELSE a.ID < b.ID

\* C10: with one or more sort keys, the records of the returned page are
\* ordered by the first key in its direction, by each following key where all
\* earlier keys tie, and by ascending id where every key ties; an absent
\* published_year is before the present ones ascending and after them
\* descending. The order is total, so one store and one query have one
\* result, whatever the iteration order of the snapshot.
C10_KeyedOrder ==
    \A p \in Procs :
        (Listed(p) /\ ret[p].arg.Sort # <<>>) =>
            LET d == ret[p].page.Data
            IN \A i, j \in DOMAIN d : i < j => Before(ret[p].arg.Sort, d[i], d[j])

\* C10's case: three records sorted on two keys, the first without a year, the
\* other two equal on both keys and in the order of their ids.
C10_Witness ==
    \E p \in Procs :
        /\ Listed(p)
        /\ ret[p].arg.Sort = <<SortKey("published_year", FALSE), SortKey("title", TRUE)>>
        /\ Len(ret[p].page.Data) = 3
        /\ LET d == ret[p].page.Data
           IN /\ IsNil(d[1].PublishedYear)
              /\ ~IsNil(d[2].PublishedYear)
              /\ d[2].PublishedYear = d[3].PublishedYear
              /\ d[2].Title = d[3].Title
              /\ d[2].ID < d[3].ID
              /\ d[1].ID > d[2].ID

\* --------------------------------------------------------------- claim C11
\* Caller p's ListBooks has ended, with a page or with a panic.
ListEnded(p) == pc[p] = "idle" /\ ret[p].op = "ListBooks"

\* The page number and page size List works with, as the specification has them.
ClampedPage(q) == IF q.Page < 1 THEN 1 ELSE q.Page
ClampedSize(q) == IF q.PageSize < 1 THEN 20 ELSE q.PageSize
Matching(q) == {id \in DOMAIN byID : Satisfies(byID[id], q)}

\* C11: for any page and page size with (page-1)*pageSize at or beyond the
\* number of matching records, List returns no error, an empty data slice
\* and Total equal to the number of stored records that match the filter;
\* and whenever List returns a page, its Total is that number.
C11_BeyondLastPage ==
    \A p \in Procs :
        ListEnded(p) =>
            LET q == ret[p].arg
                total == Cardinality(Matching(q))
            IN /\ ret[p].err = OK => ret[p].page.Total = total
               /\ (ClampedPage(q) - 1) * ClampedSize(q) >= total
                     => /\ ret[p].err = OK
                        /\ ret[p].page.Data = <<>>
                        /\ ret[p].page.Total = total

\* --------------------------------------------------------------- claim C12
\* C12: for every page and page size of the machine integer type, List
\* returns a page and never fails: its page number is the given one or 1 if
\* that was below 1, its page size the given one or 20 if that was below 1,
\* and its data are the records from start to end of the sorted matching
\* records for offsets 0 <= start <= end <= total.
C12_ClampedOffsets ==
    \A p \in Procs :
        ListEnded(p) =>
            LET q == ret[p].arg
                total == Cardinality(Matching(q))
            IN /\ ret[p].err = OK
               /\ ret[p].page.Page = ClampedPage(q)
               /\ ret[p].page.PageSize = ClampedSize(q)
               /\ \E start, end \in 0..total :
                      start <= end /\ Len(ret[p].page.Data) = end - start

\* --------------------------------------------------------------- claim C13
\* C13: every CreateBook call that fails returns one of the service's errors
\* Validation, Conflict or Upstream; a call whose insert the store's Create
\* rejects returns the Conflict the ISBN pre-check returns.
C13_DomainErrors ==
    \A p \in Procs :
        (pc[p] = "idle" /\ ret[p].op = "CreateBook")
            => ret[p].err \in {OK, ErrValidation, ErrConflict, ErrUpstream}

\* --------------------------------------------------------------- claim C14
\* The record caller p is about to create carries a non-empty ISBN for which
\* GetByISBN finds a stored record now.
PreCheckHits(p) ==
    /\ ~IsNil(bk[p].ISBN)
    /\ Deref(bk[p].ISBN) # <<>>
    /\ GetByISBN(Deref(bk[p].ISBN)).err = OK

\* C14: when the pre-check of a CreateBook call runs on a record with a
\* non-empty ISBN and GetByISBN finds a stored record for it, the call returns
\* Conflict in that step, the store unchanged; the call reaches the store's
\* Create only from a pre-check that found nothing.
C14_PreCheckStops ==
    [][\A p \in Procs :
        /\ (pc[p] = "precheck" /\ pc'[p] # "precheck" /\ PreCheckHits(p))
              => /\ Returns(p, "CreateBook")
                 /\ ret'[p].err = ErrConflict
                 /\ ret'[p].book = ZeroBook
                 /\ repo' = repo
        /\ (pc[p] # "insert" /\ pc'[p] = "insert")
              => (pc[p] = "precheck" /\ ~PreCheckHits(p))]_vars

\* C14's case: one call was stopped by the pre-check with the service's
\* Conflict after another call with another spelling of the ISBN had stored
\* its record.
C14_Witness ==
    \E p, q \in Procs : \E id \in DOMAIN byID :
        /\ p # q
        /\ pc[p] = "idle" /\ ret[p].op = "CreateBook" /\ ret[p].err = ErrConflict
        /\ Stored(q, id)
        /\ inp[p].ISBN # inp[q].ISBN
        /\ Stripped(Deref(inp[p].ISBN)) = Stripped(Deref(byID[id].ISBN))

\* --------------------------------------------------------------- claim C15
\* C15: GetBook and DeleteBook return the service's NotFound whenever the
\* store returns an error, never the store's own error value; when the store
\* succeeds GetBook returns the store's record and DeleteBook returns no
\* error, the store changed as the store's Delete changes it.
C15_NotFoundOnly ==
    [][\A p \in Procs : \A id \in IDs :
        /\ (Returns(p, "GetBook") /\ ret'[p].arg = id)
              => LET r == GetByID(id)
                 IN /\ r.err # OK => (ret'[p].err = ErrNotFound /\ ret'[p].book = ZeroBook)
                    /\ r.err = OK => (ret'[p].err = OK /\ ret'[p].book = r.book)
                    /\ repo' = repo
        /\ (Returns(p, "DeleteBook") /\ ret'[p].arg = id)
              => LET r == Delete(id)
                 IN /\ r.err # OK => ret'[p].err = ErrNotFound
                    /\ r.err = OK => ret'[p].err = OK
                    /\ byID' = r.byID /\ byISBN' = r.byISBN]_vars

\* C15's case: GetBook answered NotFound for an identifier that had been
\* issued and whose record is gone; the store's answer is its own not-found.
C15_Witness ==
    \E p \in Procs :
        /\ pc[p] = "idle" /\ ret[p].op = "GetBook" /\ ret[p].err = ErrNotFound
        /\ ret[p].arg \in issued
        /\ GetByID(ret[p].arg).err = errNotFound
        /\ byID # <<>>

\* --------------------------------------------------------------- claim C16
\* The normalized ISBN of a record, empty if it has none.
KeyOf(b) == IF IsNil(b.ISBN) THEN <<>> ELSE Stripped(Deref(b.ISBN))

\* C16: the store's Create fails with Conflict when the identifier is empty,
\* when it is present already, or when the normalized ISBN is indexed
\* already, and then leaves both maps as they were; otherwise it returns a
\* copy equal to the record, the by-identifier map gains exactly that record
\* and the index exactly its non-empty key.
C16_StoreCreate ==
    [][\A p \in Procs :
        Returns(p, "Repo.Create") =>
            LET b == ret'[p].arg
            IN IF b.ID = EmptyID \/ b.ID \in DOMAIN byID \/ KeyOf(b) \in DOMAIN byISBN
               THEN /\ ret'[p].err = errConflict
                    /\ ret'[p].book = ZeroBook
                    /\ byID' = byID /\ byISBN' = byISBN
               ELSE /\ ret'[p].err = OK
                    /\ ret'[p].book = b
                    /\ byID' = [x \in DOMAIN byID \cup {b.ID} |->
                                   IF x = b.ID THEN b ELSE byID[x]]
                    /\ byISBN' = IF KeyOf(b) = <<>> THEN byISBN
                                 ELSE [k \in DOMAIN byISBN \cup {KeyOf(b)} |->
                                          IF k = KeyOf(b) THEN b.ID ELSE byISBN[k]]]_vars

\* C16's case: Create was refused for an identifier that is present, on a
\* record whose ISBN no stored record shares, and the stored record stayed.
C16_Witness ==
    \E p \in Procs :
        /\ pc[p] = "idle" /\ ret[p].op = "Repo.Create" /\ ret[p].err = errConflict
        /\ ret[p].arg.ID \in DOMAIN byID
        /\ byID[ret[p].arg.ID] # ret[p].arg
        /\ ~IsNil(ret[p].arg.ISBN)
        /\ ~Duplicate(ret[p].arg.ISBN)

\* --------------------------------------------------------------- claim C17
\* C17: Delete of an absent identifier fails with NotFound and changes
\* nothing; Delete of a present identifier removes that record and no other,
\* and removes the index entry of the record's own ISBN key and no other.
C17_DeleteFrame ==
    [][\A p \in Procs : \A id \in IDs :
        (Returns(p, "DeleteBook") /\ ret'[p].arg = id) =>
            IF id \notin DOMAIN byID
            THEN /\ ret'[p].err \in NotFounds
                 /\ byID' = byID /\ byISBN' = byISBN
            ELSE /\ ret'[p].err = OK
                 /\ byID' = [x \in DOMAIN byID \ {id} |-> byID[x]]
                 /\ byISBN' = [k \in DOMAIN byISBN \ {KeyOf(byID[id])} |-> byISBN[k]]
                 /\ \A k \in DOMAIN byISBN \ DOMAIN byISBN' : byISBN[k] = id]_vars

\* C17's case: a Delete removed a record while another record with an
\* indexed ISBN stayed, its index entry with it and no other entry.
C17_Witness ==
    \E p \in Procs : \E id \in DOMAIN byID :
        /\ pc[p] = "idle" /\ ret[p].op = "DeleteBook" /\ ret[p].err = OK
        /\ ret[p].arg \notin DOMAIN byID
        /\ KeyOf(byID[id]) \in DOMAIN byISBN
        /\ byISBN[KeyOf(byID[id])] = id
        /\ Cardinality(DOMAIN byISBN) = 1
        /\ Cardinality(issued) > 1

\* --------------------------------------------------------------- claim C18
\* The stored records whose ISBN normalizes as t does.
Holders(t) ==
    {id \in DOMAIN byID : ~IsNil(byID[id].ISBN) /\ KeyOf(byID[id]) = Stripped(t)}

\* What the claim has GetByISBN(t) answer with r.
Resolves(t, r) ==
    /\ Stripped(t) # <<>> => \A id \in Holders(t) : r.err = OK /\ r.book = byID[id]
    /\ Holders(t) = {} => (r.err = errNotFound /\ r.book = ZeroBook)

\* C18: in every state of the store and for every spelling t, GetByISBN(t)
\* returns the stored record whose ISBN normalizes to the same non-empty
\* string as t, and fails with NotFound when no stored record's ISBN
\* normalizes as t does; every GetByISBN call returns accordingly.
C18_LookupBySpelling ==
    [][/\ \A t \in ISBNStrings : Resolves(t, GetByISBN(t))'
       /\ \A p \in Procs :
            Returns(p, "Repo.GetByISBN")
                => (Resolves(ret'[p].arg, ret'[p]) /\ repo' = repo)]_vars

\* C18's case: GetByISBN returned a stored record for a spelling other than
\* the one the record was stored with.
C18_Witness ==
    \E p \in Procs : \E id \in DOMAIN byID :
        /\ pc[p] = "idle" /\ ret[p].op = "Repo.GetByISBN" /\ ret[p].err = OK
        /\ ret[p].book = byID[id]
        /\ byID[id].ISBN # Some(ret[p].arg)
        /\ id \in Holders(ret[p].arg)

\* --------------------------------------------------------------- claim C19
\* The sequence holds every record of the store, each once, and nothing else.
SnapshotOf(seq) ==
    /\ Len(seq) = Cardinality(DOMAIN byID)
    /\ \A i \in DOMAIN seq : seq[i].ID \in DOMAIN byID /\ seq[i] = byID[seq[i].ID]
    /\ \A i, j \in DOMAIN seq : i # j => seq[i].ID # seq[j].ID

\* No write is half applied: the index holds exactly the non-empty keys of
\* the stored records, each pointing at its record.
Settled ==
    /\ \A id \in DOMAIN byID :
           KeyOf(byID[id]) # <<>>
               => (KeyOf(byID[id]) \in DOMAIN byISBN /\ byISBN[KeyOf(byID[id])] = id)
    /\ \A k \in DOMAIN byISBN :
           byISBN[k] \in DOMAIN byID /\ KeyOf(byID[byISBN[k]]) = k

\* C19: a List that runs beside Create and Delete calls takes its records at
\* one instant between its call and its return, an instant at which no Create
\* or Delete is inside its critical section and no write is half applied; the
\* records it took are exactly the store's records of that instant; no other
\* caller changes them afterwards; and the page it returns is the filter,
\* sort and page of those records.
C19_ListOfOneInstant ==
    [][\A p \in Procs :
        /\ (pc[p] = "List.locked" /\ pc'[p] # "List.locked")
              => /\ pc'[p] = "List.sort"
                 /\ SnapshotOf(items'[p])
                 /\ Settled
                 /\ \A q \in Procs : pc[q] \notin WriteSections
                 /\ repo' = repo
        /\ (pc[p] = "List.sort" /\ pc'[p] = "List.sort") => items'[p] = items[p]
        /\ (pc[p] = "List.sort" /\ pc'[p] # "List.sort")
              => /\ Returns(p, "Repo.List")
                 /\ ret'[p].err = List(items[p], inp[p].q).err
                 /\ ret'[p].page = List(items[p], inp[p].q).page
                 /\ repo' = repo]_vars

\* C19's case: a List has returned a page holding a record that a Delete,
\* started and finished while the List was sorting, has removed since.
C19_Witness ==
    \E p, q \in Procs :
        /\ p # q
        /\ pc[p] = "idle" /\ ret[p].op = "Repo.List" /\ ret[p].err = OK
        /\ pc[q] = "idle" /\ ret[q].op = "Repo.Delete" /\ ret[q].err = OK
        /\ \E i \in DOMAIN ret[p].page.Data : ret[p].page.Data[i].ID = ret[q].arg.id
        /\ Len(ret[p].page.Data) = 2
        /\ Cardinality(DOMAIN byID) = 1

\* --------------------------------------------------------------- claim C20
\* Caller p is inside a write / inside any critical section of the store.
Writing(p) == pc[p] \in WriteSections
Inside(p) == pc[p] \in WriteSections \cup ReadSections

\* While a Create or Delete is inside its critical section no other
\* operation is inside one.
Exclusive == \A p, q \in Procs : (p # q /\ Writing(p)) => ~Inside(q)

\* A caller outside the critical sections holds the mutex in no way.
Released == \A p \in Procs : ~Inside(p) => (mu.writer # p /\ p \notin mu.readers)

\* C20: in every interleaving of store operations, while a Create or Delete
\* is inside its critical section no other Create, Delete, GetByID, GetByISBN
\* or List snapshot is inside one; an operation that has left its critical
\* section, on whichever return path, holds the mutex no longer; and under
\* fair scheduling every operation that was called returns.
C20_ExclusiveAndLive ==
    /\ [](Exclusive /\ Released)
    /\ \A p \in Procs : (pc[p] # "idle") ~> (pc[p] = "idle")

\* C20's case: a Create is between its two writes, having passed its checks,
\* while another caller waits for the mutex.
C20_Witness ==
    \E p, q \in Procs :
        /\ p # q
        /\ pc[p] = "Create.byID"
        /\ mu.writer = p
        /\ pc[q] \in WriteWaits \cup ReadWaits
        /\ ~Settled

\* --------------------------------------------------------------- claim C21
\* The records a read hands out: the book of a successful GetBook or
\* GetByISBN, the data of a successful ListBooks.
ReadOut(r) ==
    IF r.err # OK THEN {}
    ELSE IF r.op \in {"GetBook", "Repo.GetByISBN"} THEN {r.book}
    ELSE IF r.op = "ListBooks" THEN {r.page.Data[i] : i \in DOMAIN r.page.Data}
    ELSE {}

\* C21: no step of any service or store operation changes a field of a record
\* that is stored before and after the step; a record enters the store as the
\* create built it, with the updated_at set then; and every read that
\* succeeds hands out the stored record of that identifier, field by field.
C21_NoInPlaceChange ==
    [][/\ \A id \in DOMAIN byID \cap DOMAIN byID' : byID'[id] = byID[id]
       /\ \A p \in Procs :
            /\ (pc[p] = "insert" /\ Returns(p, "CreateBook") /\ ret'[p].err = OK)
                  => /\ bk[p].ID \in DOMAIN byID' \ DOMAIN byID
                     /\ byID'[bk[p].ID] = bk[p]
                     /\ ret'[p].book = bk[p]
            /\ (pc'[p] = "idle" /\ ret'[p] # ret[p])
                  => \A b \in ReadOut(ret'[p]) :
                         b.ID \in DOMAIN byID /\ b = byID[b.ID]]_vars

\* C21's case: a record created after a lookup, at the later reading of the
\* clock, is read back through GetBook while it is stored.
C21_Witness ==
    \E p \in Procs :
        /\ pc[p] = "idle" /\ ret[p].op = "GetBook" /\ ret[p].err = OK
        /\ ret[p].book.UpdatedAt = 1
        /\ ret[p].book.Enrichment.Attempted
        /\ ret[p].book.ID \in DOMAIN byID

\* --------------------------------------------------------------- claim C22
\* The input passes validation, asks for enrichment and carries an ISBN
\* that is present and not empty.
LookupDue(in) ==
    /\ ~Invalid(in)
    /\ in.Enrich
    /\ in.ISBN # Nil /\ in.ISBN # Some(<<>>)

\* C22: a CreateBook call that is past its lookup step - returned, or at the
\* duplicate check or the insert - has invoked the lookup once, with the ISBN
\* of its input as it was supplied, if its input passed validation with
\* Enrich set and a present, non-empty ISBN, and has not invoked it
\* otherwise; no call invokes it twice; and a record stored by a call that
\* did not invoke it carries attempted = false, status not_requested, an
\* empty source and an empty looked-up ISBN.
C22_LookupIffDue ==
    \A p \in Procs :
        /\ Len(fetches[p]) <= 1
        /\ pc[p] = "fetch" => (LookupDue(inp[p]) /\ fetches[p] = <<>>)
        /\ (calls[p] > 0 /\ pc[p] # "fetch")
              => fetches[p] = IF LookupDue(inp[p]) THEN <<Deref(inp[p].ISBN)>> ELSE <<>>
        /\ \A id \in DOMAIN byID :
              (Stored(p, id) /\ fetches[p] = <<>>)
                  => byID[id].Enrichment =
                         EnrichmentMeta(FALSE, "", EnrichmentNotRequested, <<>>)

\* C22's case: a call with Enrich set and an ISBN written with a hyphen has
\* looked that spelling up and stored its record.
C22_Witness ==
    \E p \in Procs : \E id \in DOMAIN byID :
        /\ Stored(p, id)
        /\ inp[p].Enrich
        /\ fetches[p] = << <<"1", "-">> >>

\* --------------------------------------------------------------- claim C23
\* C23: whenever an attempt of FetchByISBN has ended in not found, it was
\* the last attempt made, no backoff wait followed it, and FetchByISBN has
\* returned the not found, whatever the retry count.
C23_NotFoundIsFinal ==
    \A k \in DOMAIN client.errs :
        client.errs[k] = errNotFound
            => /\ k = Len(client.errs) /\ client.made = k
               /\ Len(client.waits) = k - 1
               /\ client.at = "returned" /\ client.err = errNotFound

\* C23's case: with attempts to spare, the second attempt ends in not found.
C23_Witness ==
    /\ client.Retry = MaxRetry
    /\ client.errs = <<errStatus, errNotFound>>
    /\ client.at = "returned"

\* --------------------------------------------------------------- claim C24
\* FetchByISBN has been called and has not returned.
Fetching == client.at \in {"loop", "inflight", "backoff"}
Fetched == client.at = "returned"

\* The attempts that have come back, and whether each of them failed with
\* an error that is retried.
Failures == {k \in DOMAIN client.errs : client.errs[k] \notin {OK, errNotFound}}
AllFailed == Failures = DOMAIN client.errs

\* What holds of the attempts and waits at every moment: the retry count is
\* not negative; at most Retry + 1 attempts are made; a success is the last
\* attempt and is returned; the k-th wait lasts k times 150ms and follows the
\* k-th failed attempt; there are fewer waits than Retry + 1, so none after
\* the last attempt; and, the context not being cancelled, every failed
\* attempt but the last is followed by its wait, and the call returns the
\* last attempt's error, after Retry + 1 attempts when all of them failed.
Attempts ==
    /\ client.Retry >= 0
    /\ client.made <= client.Retry + 1
    /\ \A k \in DOMAIN client.errs :
           client.errs[k] = OK
               => /\ k = Len(client.errs) /\ client.made = k
                  /\ Fetched /\ client.err = OK /\ client.found
    /\ \A k \in DOMAIN client.waits :
           client.waits[k] = k * 150 /\ k \in Failures /\ k < Len(client.errs) + 1
    /\ Len(client.waits) <= client.Retry
    /\ Len(client.waits) < client.made + 1
    /\ ~client.ctxDone =>
          /\ client.at = "loop" => Len(client.waits) = Len(client.errs)
          /\ Fetched =>
                /\ Len(client.errs) >= 1
                /\ Len(client.waits) = Len(client.errs) - 1
                /\ client.err = client.errs[Len(client.errs)]
                /\ AllFailed => Len(client.errs) = client.Retry + 1

\* C24: the above at every moment of every FetchByISBN call, and every call
\* that was made returns.
C24_BoundedRetries == []Attempts /\ (Fetching ~> Fetched)

\* C24's case: every one of the MaxRetry + 1 attempts failed, with a wait of
\* growing length after each but the last.
C24_Witness ==
    /\ Fetched /\ ~client.ctxDone
    /\ client.Retry = MaxRetry
    /\ Len(client.errs) = MaxRetry + 1 /\ AllFailed
    /\ Len(client.waits) = MaxRetry
    /\ client.err = errDecode

\* --------------------------------------------------------------- claim C25
\* The errors that say the context was cancelled: ctx.Err() itself and the
\* error of a request Client.Do gave up for it.
Cancellations == {ctxCanceled, errDoCanceled}

\* C25 as stated: once the context is cancelled no backoff wait is completed
\* and no further request is sent, and a call that returns with its context
\* cancelled returns a cancellation failure.
C25_CancelAlwaysWins ==
    /\ [][client.ctxDone => (client'.waits = client.waits /\ client'.at # "inflight")]_vars
    /\ [](Fetched /\ client.ctxDone => client.err \in Cancellations)

\* C25, amended: a call in a backoff wait whose context is cancelled leaves
\* the wait for its return, with ctx.Err() as its error and without another
\* attempt; once the context is cancelled no wait is completed and an attempt
\* that is started is refused and ends in the wait or the return; and a call
\* that returns with its context cancelled returns ctx.Err(), or else the
\* outcome of its latest attempt, that being a success, a not found, or the
\* failure of attempt Retry + 1.
C25_CancelEndsWait ==
    [][client.ctxDone =>
        /\ client'.waits = client.waits
        /\ client.at = "backoff" =>
              /\ client'.at = "returned" /\ client'.err = ctxCanceled
              /\ client'.made = client.made /\ client'.errs = client.errs
        /\ client'.made > client.made =>
              /\ client'.at \in {"backoff", "returned"}
              /\ client'.errs = Append(client.errs, errDoCanceled)
        /\ client'.at = "returned" =>
              \/ client'.err = ctxCanceled /\ client.at = "backoff"
              \/ /\ client'.errs # <<>>
                 /\ client'.err = client'.errs[Len(client'.errs)]
                 /\ \/ client'.err \in {OK, errNotFound}
                    \/ Len(client'.errs) = client.Retry + 1]_vars

\* C25's case: the first attempt failed with attempts to spare, the context
\* was cancelled, and the call returned ctx.Err() without finishing its wait.
C25_Witness ==
    /\ Fetched /\ client.ctxDone
    /\ client.Retry >= 1
    /\ client.errs = <<errStatus>> /\ client.made = 1
    /\ client.waits = <<>>
    /\ client.err = ctxCanceled

\* --------------------------------------------------------------- claim C26
\* The Tags and the Authors that a read of the record b returns in memory m.
Names(m, b) == <<Elems(m, b.Tags), Elems(m, b.Authors)>>

\* A caller writes to a slice: an array changes, none is added.
Scribbles ==
    /\ Len(mem'.arrays) = Len(mem.arrays)
    /\ mem'.arrays # mem.arrays

\* C26: a write of a caller to a slice it has in hand - one it passed to
\* CreateBook or to Create, or one returned by Create, CreateBook, GetByID,
\* GetByISBN or List - changes the Tags and Authors of no stored record, and
\* every read returns, in slices of its own, the Tags and Authors the store
\* holds: so no read after the write returns other names than before it.
C26_NoAliasing ==
    [][/\ Scribbles =>
            \A id \in DOMAIN byID : Names(mem', byID'[id]) = Names(mem, byID[id])
       /\ \A p \in Procs :
            (calls'[p] # calls[p] /\ ret'[p].err = OK /\ ~Scribbles) =>
                /\ ret'[p].op \in {"Repo.Create", "CreateBook", "Repo.GetByID", "Repo.GetByISBN"}
                      => Names(mem', ret'[p].book) = Names(mem', byID'[ret'[p].book.ID])
                /\ \A i \in DOMAIN ret'[p].page.Data :
                      Names(mem', ret'[p].page.Data[i])
                          = Names(mem', byID'[ret'[p].page.Data[i].ID])]_vars

\* C26's case: a caller changed a tag in the slice GetByID gave it, and the
\* store still holds the tag as it was created.
C26_Witness ==
    \E p \in Procs :
        /\ ret[p].op = "Repo.GetByID" /\ ret[p].err = OK
        /\ ret[p].book.ID \in DOMAIN byID
        /\ Elems(mem, ret[p].book.Tags) = << <<"b">> >>
        /\ Elems(mem, byID[ret[p].book.ID].Tags) = << <<"t">> >>

\* --------------------------------------------------------------- claim C27
\* The sort keys after the n-th.
After(keys, n) == SubSeq(keys, n + 1, Len(keys))

\* C27: in a page sorted with published_year as a key, of two records that
\* tie on every earlier key the one without a year comes before the one with
\* a year when the key is ascending and after it when the key is descending,
\* and two records without a year are in the order the following keys and
\* the id give them, whichever the direction of the year key.
C27_AbsentYearLeast ==
    \A p \in Procs :
        Listed(p) =>
            LET d == ret[p].page.Data
                keys == ret[p].arg.Sort
            IN \A n \in DOMAIN keys : \A i, j \in DOMAIN d :
                (/\ keys[n].Field = "published_year"
                 /\ i < j
                 /\ \A m \in 1..(n - 1) : Directed(keys[m], d[i], d[j]) = 0)
                    => /\ keys[n].Desc => ~(d[i].PublishedYear = Nil /\ d[j].PublishedYear # Nil)
                       /\ ~keys[n].Desc => ~(d[i].PublishedYear # Nil /\ d[j].PublishedYear = Nil)
                       /\ (d[i].PublishedYear = Nil /\ d[j].PublishedYear = Nil)
                              => Before(After(keys, n), d[i], d[j])

\* C27's case: sorted by year descending, the record with a year is first
\* and the two without follow in the order of their ids, though the record
\* with a year has the greatest id.
C27_Witness ==
    \E p \in Procs :
        /\ Listed(p)
        /\ ret[p].arg.Sort = <<SortKey("published_year", TRUE)>>
        /\ Len(ret[p].page.Data) = 3
        /\ LET d == ret[p].page.Data
           IN /\ d[1].PublishedYear # Nil /\ d[1].ID = 3
              /\ d[2].PublishedYear = Nil /\ d[3].PublishedYear = Nil
              /\ d[2].ID < d[3].ID

\* --------------------------------------------------------------- claim C28
\* C28: whenever the HTTP layer has answered a create request whose
\* Service.CreateBook call failed, the status is the one of the failure's
\* kind, 400 for Validation, 409 for Conflict, 502 for Upstream, and not 500.
C28_StatusOfKind ==
    \A p \in Procs :
        (resp[p] # NoResp /\ ret[p].op = "CreateBook" /\ ret[p].err # OK)
            => /\ ret[p].err = ErrValidation => resp[p].status = StatusBadRequest
               /\ ret[p].err = ErrConflict => resp[p].status = StatusConflict
               /\ ret[p].err = ErrUpstream => resp[p].status = StatusBadGateway
               /\ resp[p].status # StatusInternalServerError

\* --------------------------------------------------------------- claim C29
\* Every index entry points at a stored record with that normalized ISBN.
EntriesResolve ==
    \A k \in DOMAIN byISBN :
        /\ byISBN[k] \in DOMAIN byID
        /\ ~IsNil(byID[byISBN[k]].ISBN)
        /\ normalizeISBN(Deref(byID[byISBN[k]].ISBN)) = k

\* Every stored record with a non-empty normalized ISBN owns the entry of it.
RecordsIndexed ==
    \A id \in DOMAIN byID :
        (~IsNil(byID[id].ISBN) /\ normalizeISBN(Deref(byID[id].ISBN)) # <<>>)
            => /\ normalizeISBN(Deref(byID[id].ISBN)) \in DOMAIN byISBN
               /\ byISBN[normalizeISBN(Deref(byID[id].ISBN))] = id

\* C29: in every state of the store that a caller can observe, that is with
\* no Create or Delete inside its critical section, each index entry k -> id
\* points to a stored record whose ISBN normalizes to k, each stored record
\* with a non-empty normalized ISBN k has the entry k -> its id, and no entry
\* points to a record without ISBN; and a GetByISBN that holds the read lock
\* never finds an entry whose record is missing.
C29_IndexesAgree ==
    /\ mu.writer = NoProc => (EntriesResolve /\ RecordsIndexed)
    /\ \A p \in Procs :
           (pc[p] = "GetByISBN.locked" /\ normalizeISBN(inp[p].isbn) \in DOMAIN byISBN)
               => byISBN[normalizeISBN(inp[p].isbn)] \in DOMAIN byID

\* C29's case: one caller has deleted the record that held the key "1",
\* another has then created a record with ISBN "1-" under a new identifier:
\* the entry "1" points at the new record and the old record is gone.
C29_Witness ==
    /\ mu.writer = NoProc
    /\ PriorBook.ID \notin DOMAIN byID
    /\ <<"1">> \in DOMAIN byISBN
    /\ byISBN[<<"1">>] \in DOMAIN byID
    /\ \E p, q \in Procs :
           /\ ret[p].op = "Repo.Delete" /\ ret[p].err = OK
           /\ ret[q].op = "Repo.Create" /\ ret[q].err = OK
           /\ ret[q].book.ISBN = Some(<<"1", "-">>)

\* --------------------------------------------------------------- claim C30
\* C30: every record CreateBook has persisted has a page count, when it has
\* one, of at least 1 and a published year, when it has one, in [1450, 3000],
\* whether the caller gave the field or the enrichment result filled it.
C30_PersistedInRange ==
    \A p \in Procs :
        (ret[p].op = "CreateBook" /\ ret[p].err = OK /\ ret[p].book.ID \in DOMAIN byID)
            => LET b == byID[ret[p].book.ID]
               IN /\ ~IsNil(b.PageCount) => Deref(b.PageCount) >= MinPageCount
                  /\ ~IsNil(b.PublishedYear)
                        => (Deref(b.PublishedYear) >= MinYear
                            /\ Deref(b.PublishedYear) <= MaxYear)

\* --------------------------------------------------------------- claim C31
\* C31: every record CreateBook has persisted without attempting the
\* enrichment has a non-empty title, whatever the Enrich flag and the ISBN
\* of the input were, an ISBN that is present and empty included.
C31_UnattemptedHasTitle ==
    \A p \in Procs :
        (/\ ret[p].op = "CreateBook"
         /\ ret[p].err = OK
         /\ ret[p].book.ID \in DOMAIN byID
         /\ ~byID[ret[p].book.ID].Enrichment.Attempted)
            => byID[ret[p].book.ID].Title # <<>>

\* --------------------------------------------------------------- claim C32
\* C32: the enrichment metadata of every record CreateBook has persisted is
\* consistent: attempted is false exactly when the status is not_requested;
\* when attempted is true the status is ok or partial, the source is not
\* empty and the looked-up ISBN is the record's ISBN, which is the caller's;
\* ok stands only after a lookup that succeeded, partial only after one that
\* failed.
C32_ConsistentMeta ==
    \A p \in Procs :
        (ret[p].op = "CreateBook" /\ ret[p].err = OK /\ ret[p].book.ID \in DOMAIN byID)
            => LET b == byID[ret[p].book.ID]
                   m == b.Enrichment
               IN /\ ~m.Attempted <=> m.Status = EnrichmentNotRequested
                  /\ m.Attempted
                        => /\ m.Status \in {EnrichmentOK, EnrichmentPartial}
                           /\ m.Source # ""
                           /\ b.ISBN = inp[p].ISBN
                           /\ b.ISBN # Nil
                           /\ m.LookedUpISBN = Deref(b.ISBN)
                  /\ m.Status = EnrichmentOK => (Len(fetches[p]) = 1 /\ ~enr[p].err)
                  /\ m.Status = EnrichmentPartial => (Len(fetches[p]) = 1 /\ enr[p].err)

\* C32's case: a record with the ISBN "1-" persisted after a failed lookup
\* that was not required, partial and with "1-" as the looked-up ISBN.
C32_Witness ==
    \E p \in Procs :
        /\ ret[p].op = "CreateBook" /\ ret[p].err = OK
        /\ ret[p].book.ID \in DOMAIN byID
        /\ byID[ret[p].book.ID].Enrichment.Attempted
        /\ byID[ret[p].book.ID].Enrichment.Status = EnrichmentPartial
        /\ byID[ret[p].book.ID].Enrichment.LookedUpISBN = <<"1", "-">>
        /\ enr[p].err

\* --------------------------------------------------------------- claim C33
\* C33: CreateBook checks in the order validation, enrichment lookup, ISBN
\* pre-check. A call that fails validation returns before any lookup; a valid
\* call that has an ISBN to look up goes to the lookup even when that ISBN is
\* stored already; a failed required lookup returns Upstream, stored ISBN or
\* not, without the pre-check; and Conflict is returned only from the
\* pre-check, after the lookup if one was due.
C33_ChecksInOrder ==
    [][\A p \in Procs :
        /\ (StartsCreate(p) /\ Validate(inp'[p]) # OK)
              => (Returns(p, "CreateBook") /\ ret'[p].err = ErrValidation
                  /\ fetches'[p] = <<>>)
        /\ (StartsCreate(p) /\ Validate(inp'[p]) = OK /\ WantsEnrichment(inp'[p]))
              => pc'[p] = "fetch"
        /\ (LookupAnswers(p) /\ enr'[p].err /\ inp[p].RequireEnrichment)
              => (Returns(p, "CreateBook") /\ ret'[p].err = ErrUpstream)
        /\ (Returns(p, "CreateBook") /\ ret'[p].err = ErrConflict)
              => /\ pc[p] = "precheck"
                 /\ WantsEnrichment(inp[p])
                       => (Len(fetches[p]) = 1 /\ ~(enr[p].err /\ inp[p].RequireEnrichment))]_vars

\* C33's case: the input's ISBN "1-" is stored already as "1", the required
\* lookup was made and failed, and the call returned Upstream.
C33_Witness ==
    \E p \in Procs :
        /\ pc[p] = "idle" /\ ret[p].op = "CreateBook" /\ ret[p].err = ErrUpstream
        /\ inp[p].Enrich /\ inp[p].RequireEnrichment
        /\ inp[p].ISBN = Some(<<"1", "-">>)
        /\ <<"1">> \in DOMAIN byISBN
        /\ fetches[p] = << <<"1", "-">> >>
        /\ enr[p].err

\* --------------------------------------------------------------- claim C34
\* No stored record has an ISBN that normalizes to k.
FreeKey(k) == \A id \in DOMAIN byID : KeyOf(byID[id]) # k

\* C34: a successful delete of a record whose ISBN normalizes to a non-empty
\* k leaves no index entry for k and no record with that key; and a create
\* with an ISBN whose key no stored record has succeeds, whichever spelling
\* it comes in: CreateBook passes its pre-check and its insert stores the
\* record, and the store's Create under an unused identifier stores it.
C34_DeleteFreesISBN ==
    [][\A p \in Procs :
        /\ (Returns(p, "DeleteBook") /\ ret'[p].err = OK
            /\ KeyOf(byID[ret'[p].arg]) # <<>>)
              => /\ KeyOf(byID[ret'[p].arg]) \notin DOMAIN byISBN'
                 /\ \A id \in DOMAIN byID' : KeyOf(byID'[id]) # KeyOf(byID[ret'[p].arg])
        /\ (pc[p] = "precheck" /\ pc'[p] # "precheck" /\ FreeKey(KeyOf(bk[p])))
              => pc'[p] = "insert"
        /\ (pc[p] = "insert" /\ pc'[p] # "insert" /\ FreeKey(KeyOf(bk[p])))
              => /\ Returns(p, "CreateBook") /\ ret'[p].err = OK
                 /\ bk[p].ID \in DOMAIN byID' /\ byID'[bk[p].ID].ISBN = bk[p].ISBN
        /\ (Returns(p, "Repo.Create") /\ ret'[p].arg.ID # EmptyID
            /\ ret'[p].arg.ID \notin DOMAIN byID /\ FreeKey(KeyOf(ret'[p].arg)))
              => /\ ret'[p].err = OK
                 /\ ret'[p].arg.ID \in DOMAIN byID'
                 /\ byID'[ret'[p].arg.ID].ISBN = ret'[p].arg.ISBN]_vars

\* C34's case: the record with ISBN "1" that the store held at the start is
\* deleted, and CreateBook with ISBN " 1" has then stored a record under a
\* new identifier, which the index entry "1" points at.
C34_Witness ==
    \E p \in Procs :
        /\ pc[p] = "idle" /\ ret[p].op = "CreateBook" /\ ret[p].err = OK
        /\ ret[p].book.ISBN = Some(<<" ", "1">>)
        /\ PriorBook.ID \in issued /\ PriorBook.ID \notin DOMAIN byID
        /\ ret[p].book.ID \in DOMAIN byID
        /\ byISBN[<<"1">>] = ret[p].book.ID

====
